---- MODULE Spec2Model ----
(***************************************************************************)
(* ECU log analyzer: the symbol table (MapFileParser) with its serial and   *)
(* its parallel parse, the TRAP event extractor (TrapAnalyzer), the SOA    *)
(* counter reconstruction and charts (SOAAnalyzer), the parsing of a      *)
(* directory of log files (LogParser, ParallelProcessor), and the symbol   *)
(* lookups the worker threads of that parsing make at the same time.       *)
(*                                                                         *)
(* Text is modelled as a sequence of one-character strings, so that        *)
(* strip, split, lower-casing, regular-expression matching and hex parsing *)
(* are computed on characters as the Python code computes them.            *)
(***************************************************************************)
EXTENDS Integers, Sequences, FiniteSets, TLC

\* Python's None, kept apart from every text (texts hold one-character strings).
Nil == <<"None">>

----------------------------------------------------------------------------
\* Characters and strings

Digits == <<"0","1","2","3","4","5","6","7","8","9">>
LowerAlpha == <<"a","b","c","d","e","f","g","h","i","j","k","l","m",
                "n","o","p","q","r","s","t","u","v","w","x","y","z">>
UpperAlpha == <<"A","B","C","D","E","F","G","H","I","J","K","L","M",
                "N","O","P","Q","R","S","T","U","V","W","X","Y","Z">>

InSeq(seq, c) == \E i \in 1..Len(seq) : seq[i] = c
IndexOf(seq, c) == CHOOSE i \in 1..Len(seq) : seq[i] = c

DigitSet == {Digits[i] : i \in 1..Len(Digits)}
LowerSet == {LowerAlpha[i] : i \in 1..Len(LowerAlpha)}
UpperSet == {UpperAlpha[i] : i \in 1..Len(UpperAlpha)}
HexLetterSet == {"a","b","c","d","e","f","A","B","C","D","E","F"}

IsDigit(c) == c \in DigitSet
IsLower(c) == c \in LowerSet
IsUpper(c) == c \in UpperSet
IsSpace(c) == c \in {" ", "\t", "\n", "\r"}
IsHexDigit(c) == c \in DigitSet \/ c \in HexLetterSet

\* str.lower()
LowerOf == [c \in UpperSet |-> LowerAlpha[IndexOf(UpperAlpha, c)]]
LowerChar(c) == IF c \in UpperSet THEN LowerOf[c] ELSE c
Lower(s) == [i \in 1..Len(s) |-> LowerChar(s[i])]

\* str.startswith(prefix)
StartsWith(s, prefix) == Len(s) >= Len(prefix) /\ SubSeq(s, 1, Len(prefix)) = prefix

\* `sub in s` for strings
Contains(s, sub) == \E i \in 1..(Len(s) - Len(sub) + 1) : SubSeq(s, i, i + Len(sub) - 1) = sub

\* str.strip()
Strip(s) ==
    IF \A i \in 1..Len(s) : IsSpace(s[i]) THEN <<>>
    ELSE LET a == CHOOSE i \in 1..Len(s) : ~IsSpace(s[i]) /\ \A j \in 1..(i-1) : IsSpace(s[j])
             b == CHOOSE i \in 1..Len(s) : ~IsSpace(s[i]) /\ \A j \in (i+1)..Len(s) : IsSpace(s[j])
         IN SubSeq(s, a, b)

\* str.split(sep) for a one-character separator
RECURSIVE Split(_, _)
Split(s, sep) ==
    IF \A i \in 1..Len(s) : s[i] # sep THEN <<s>>
    ELSE LET k == CHOOSE i \in 1..Len(s) : s[i] = sep /\ \A j \in 1..(i-1) : s[j] # sep
         IN <<SubSeq(s, 1, k-1)>> \o Split(SubSeq(s, k+1, Len(s)), sep)

\* The first index in lo..hi whose element satisfies P, 0 when there is none
\* (a `for j in range(lo, hi): if P: ...; break` loop).
FirstIndex(seq, lo, hi, P(_)) ==
    IF \E j \in lo..hi : P(seq[j])
    THEN CHOOSE j \in lo..hi : P(seq[j]) /\ \A k \in lo..(j-1) : ~P(seq[k])
    ELSE 0

----------------------------------------------------------------------------
\* int(text, 16)

HexDigitValOf ==
    [c \in DigitSet \cup HexLetterSet |->
        IF c \in DigitSet THEN IndexOf(Digits, c) - 1 ELSE 9 + IndexOf(LowerAlpha, LowerChar(c))]
HexDigitVal(c) == HexDigitValOf[c]

\* The digits after an optional 0x/0X prefix.
HexBody(s) == IF StartsWith(Lower(s), <<"0","x">>) THEN SubSeq(s, 3, Len(s)) ELSE s

\* int(s, 16) raises ValueError unless s is hex digits after an optional prefix.
HexValid(s) == HexBody(s) # <<>> /\ \A i \in 1..Len(HexBody(s)) : IsHexDigit(HexBody(s)[i])

\* The value of a hex text as [hi, lo] with value = hi * 65536 + lo, lo < 65536:
\* 32-bit addresses from 0x80000000 up do not fit TLC's integers as one number.
RECURSIVE HexFold(_, _, _)
HexFold(body, hi, lo) ==
    IF body = <<>> THEN [hi |-> hi, lo |-> lo]
    ELSE HexFold(Tail(body), hi * 16 + (lo \div 4096), (lo % 4096) * 16 + HexDigitVal(Head(body)))

HexVal(s) == HexFold(HexBody(s), 0, 0)

\* a <= b on [hi, lo] values
ValLeq(a, b) == a.hi < b.hi \/ (a.hi = b.hi /\ a.lo <= b.lo)

\* abs(a - b); a difference of two or more in hi is at least 65537 and is
\* reported as 131072: the code compares distances only below 0x1000.
Distance(a, b) ==
    LET dh == a.hi - b.hi
        d == dh * 65536 + (a.lo - b.lo)
    IN IF dh >= 2 \/ dh <= -2 THEN 131072 ELSE IF d < 0 THEN -d ELSE d

----------------------------------------------------------------------------
\* Python dicts: insertion-ordered sequences of [k, v] entries

DictHas(d, k) == \E i \in 1..Len(d) : d[i].k = k
DictGet(d, k) == d[CHOOSE i \in 1..Len(d) : d[i].k = k].v
DictPut(d, k, v) ==
    IF DictHas(d, k)
    THEN [i \in 1..Len(d) |-> IF d[i].k = k THEN [k |-> k, v |-> v] ELSE d[i]]
    ELSE Append(d, [k |-> k, v |-> v])
DictKeys(d) == {d[i].k : i \in 1..Len(d)}

----------------------------------------------------------------------------
\* MapFileParser: parsing the map file

\* re.match(r'0x[0-9a-fA-F]{8}$', part)
IsAddressField(part) ==
    /\ Len(part) = 10
    /\ part[1] = "0" /\ part[2] = "x"
    /\ \A i \in 3..10 : IsHexDigit(part[i])

IsIdentStart(c) == IsLower(c) \/ IsUpper(c) \/ c = "_"
IsIdentChar(c) == IsIdentStart(c) \/ IsDigit(c)

\* re.match(r'[a-zA-Z_][a-zA-Z0-9_]*', candidate): a match at the start only
MatchIdentPrefix(candidate) == candidate # <<>> /\ IsIdentStart(candidate[1])

\* re.match(r'[a-zA-Z_][a-zA-Z0-9_]*$', part): the whole field
MatchIdentFull(part) ==
    /\ part # <<>>
    /\ IsIdentStart(part[1])
    /\ \A i \in 1..Len(part) : IsIdentChar(part[i])

NoisePrefix == <<"m","p","e",":">>
HexPrefix == <<"0","x">>

\* The test on a candidate name column next to an address column.
IsNameCandidate(candidate) ==
    /\ candidate # <<>>
    /\ ~StartsWith(candidate, HexPrefix)
    /\ ~StartsWith(candidate, NoisePrefix)
    /\ Len(candidate) > 2
    /\ MatchIdentPrefix(candidate)

\* The test on a column that starts the reverse mapping (name, then address).
IsNameColumn(part) == MatchIdentFull(part) /\ ~StartsWith(part, NoisePrefix)

\* The column the `for i, part in enumerate(parts)` loop breaks on.
IsDecidingColumn(part) == part # <<>> /\ (IsAddressField(part) \/ IsNameColumn(part))

\* parts = [part.strip() for part in line.split('|')]
Parts(line) ==
    LET raw == Split(line, "|") IN [i \in 1..Len(raw) |-> Strip(raw[i])]

\* The address column is found first and the name is looked for before it,
\* then after it; one layout only.
ScanRowNameBeforeOnly(parts) ==
    LET i == FirstIndex(parts, 1, Len(parts), IsDecidingColumn)
    IN IF i = 0 THEN [addr |-> Nil, name |-> Nil]
       ELSE IF IsAddressField(parts[i])
       THEN LET jb == FirstIndex(parts, 1, i - 1, IsNameCandidate)
            IN [addr |-> Lower(parts[i]),
                name |-> IF jb # 0 THEN parts[jb] ELSE Nil]
       ELSE LET ka == FirstIndex(parts, i + 1, Len(parts), IsAddressField)
            IN [addr |-> IF ka # 0 THEN Lower(parts[ka]) ELSE Nil,
                name |-> parts[i]]

\* The body of the loop over the columns of one row: the address and the name
\* the row defines, Nil for what it does not.
ScanRow(parts) ==
    LET i == FirstIndex(parts, 1, Len(parts), IsDecidingColumn)
    IN IF i = 0 THEN [addr |-> Nil, name |-> Nil]
       ELSE IF IsAddressField(parts[i])
       THEN LET jb == FirstIndex(parts, 1, i - 1, IsNameCandidate)
                ja == FirstIndex(parts, i + 1, Len(parts), IsNameCandidate)
            IN [addr |-> Lower(parts[i]),
                name |-> IF jb # 0 THEN parts[jb]
                         ELSE IF ja # 0 THEN parts[ja] ELSE Nil]
       ELSE LET ka == FirstIndex(parts, i + 1, Len(parts), IsAddressField)
            IN [addr |-> IF ka # 0 THEN Lower(parts[ka]) ELSE Nil,
                name |-> parts[i]]

\* What one line of the map file defines ([addr, name], Nil for a skipped line).
ParseRow(line) ==
    LET l == Strip(line)
    IN IF l = <<>> \/ ~StartsWith(l, <<"|">>) THEN [addr |-> Nil, name |-> Nil]
       ELSE IF Len(Parts(l)) < 3 THEN [addr |-> Nil, name |-> Nil]
       ELSE ScanRow(Parts(l))

FunctionKeywords ==
    << <<"f","u","n","c">>, <<"h","a","n","d","l","e","r">>, <<"i","n","i","t">>,
       <<"m","a","i","n">>, <<"p","r","o","c","e","s","s">>, <<"t","a","s","k">>,
       <<"i","s","r">>, <<"o","s","_">> >>

IsFunctionSymbol(symbol) ==
    \/ \E k \in 1..Len(FunctionKeywords) : Contains(Lower(symbol), FunctionKeywords[k])
    \/ (~InSeq(symbol, ".") /\ IsUpper(symbol[1]))

\* The three maps after one more line.
AddRow(tab, line) ==
    LET r == ParseRow(line)
    IN IF r.addr # Nil /\ r.name # Nil
       THEN [symbols |-> DictPut(tab.symbols, r.addr, r.name),
             functions |-> IF IsFunctionSymbol(r.name)
                           THEN DictPut(tab.functions, r.addr, r.name)
                           ELSE tab.functions,
             variables |-> IF IsFunctionSymbol(r.name)
                           THEN tab.variables
                           ELSE DictPut(tab.variables, r.addr, r.name)]
       ELSE tab

EmptyTable == [symbols |-> <<>>, functions |-> <<>>, variables |-> <<>>]

\* _parse_tasking_map over the lines of content.split('\n')
RECURSIVE ParseLines(_, _)
ParseLines(lines, tab) ==
    IF lines = <<>> THEN tab ELSE ParseLines(Tail(lines), AddRow(tab, Head(lines)))

ParseTaskingMap(lines) == ParseLines(lines, EmptyTable)

\* MapFileParser._parse_tasking_map_parallel

\* min(multiprocessing.cpu_count(), 4)
MaxWorkers == 4

\* lines[start:end] of the i-th of max_workers chunks (i from 1): chunk_size
\* lines each, the last chunk up to the end.
Chunk(lines, max_workers, i) ==
    LET chunk_size == Len(lines) \div max_workers
        start == (i - 1) * chunk_size
        end == IF i < max_workers THEN start + chunk_size ELSE Len(lines)
    IN SubSeq(lines, start + 1, end)

\* parse_chunk: the local maps of one chunk, rows read as the serial loop
\* reads them.
ParseChunk(chunk_lines) == ParseLines(chunk_lines, EmptyTable)

\* dict.update(local): the keys of local in their order
RECURSIVE DictUpdate(_, _)
DictUpdate(dict, local) ==
    IF local = <<>> THEN dict
    ELSE DictUpdate(DictPut(dict, Head(local).k, Head(local).v), Tail(local))

\* The merge of the maps of one completed chunk into the parser's maps.
MergeLocal(tab, local) ==
    [symbols |-> DictUpdate(tab.symbols, local.symbols),
     functions |-> DictUpdate(tab.functions, local.functions),
     variables |-> DictUpdate(tab.variables, local.variables)]

----------------------------------------------------------------------------
\* MapFileParser: looking an address up

\* `if not address.lower().startswith('0x'): address = '0x' + address`
NormalizeAddress(address) ==
    IF ~StartsWith(Lower(address), HexPrefix) THEN HexPrefix \o address ELSE address

\* addr_key = address.lower()
AddrKey(address) == Lower(NormalizeAddress(address))

\* The accepted distance of a nearest match: `distance < 0x1000`.
RangeLimit == 4096

\* self._cache_max_size. The source sets 10000; the model scales it down so that
\* the lookups of the model can fill a cache beyond it.
CacheMaxSize == 3

\* A nearest match is accepted at the limit itself.
WithinRangeInclusive(distance) == distance <= RangeLimit

WithinRange(distance) == distance < RangeLimit

\* The loop over self.symbols.items(): best = [inf, min_distance, closest_symbol].
RECURSIVE NearestScan(_, _, _)
NearestScan(symbols, target, best) ==
    IF symbols = <<>> THEN best
    ELSE LET distance == Distance(target, HexVal(Head(symbols).k))
             closer == (best.inf \/ distance < best.min_distance) /\ WithinRange(distance)
         IN NearestScan(Tail(symbols), target,
                        IF closer
                        THEN [inf |-> FALSE, min_distance |-> distance,
                              closest_symbol |-> Head(symbols).v]
                        ELSE best)

\* The nearest symbol of an address (already 0x-prefixed), Nil when int(address, 16)
\* raises or no symbol is within the limit.
NearestSymbol(symbols, address) ==
    IF ~HexValid(address) THEN Nil
    ELSE NearestScan(symbols, HexVal(address),
                     [inf |-> TRUE, min_distance |-> 0, closest_symbol |-> Nil]).closest_symbol

\* The not-found entry is written to the exact cache before the nearest scan.
FindSymbolByAddressMissCachedEarly(symbols, lcache, rcache, address) ==
    LET addr_key == AddrKey(address)
        closest == NearestSymbol(symbols, NormalizeAddress(address))
    IN IF DictHas(lcache, addr_key)
       THEN [result |-> DictGet(lcache, addr_key), lookup_cache |-> lcache, range_cache |-> rcache]
       ELSE IF DictHas(symbols, addr_key)
       THEN [result |-> DictGet(symbols, addr_key),
             lookup_cache |-> DictPut(lcache, addr_key, DictGet(symbols, addr_key)),
             range_cache |-> rcache]
       ELSE IF DictHas(rcache, addr_key)
       THEN [result |-> DictGet(rcache, addr_key), lookup_cache |-> lcache, range_cache |-> rcache]
       ELSE IF closest # Nil /\ closest # <<>>
       THEN [result |-> closest, lookup_cache |-> DictPut(lcache, addr_key, Nil),
             range_cache |-> DictPut(rcache, addr_key, closest)]
       ELSE [result |-> Nil, lookup_cache |-> DictPut(lcache, addr_key, Nil),
             range_cache |-> rcache]

\* find_symbol_by_address: the value returned and the two caches after the call.
FindSymbolByAddress(symbols, lcache, rcache, address) ==
    LET addr_key == AddrKey(address)
        closest == NearestSymbol(symbols, NormalizeAddress(address))
    IN IF DictHas(lcache, addr_key)
       THEN [result |-> DictGet(lcache, addr_key), lookup_cache |-> lcache, range_cache |-> rcache]
       ELSE IF DictHas(symbols, addr_key)
       THEN [result |-> DictGet(symbols, addr_key),
             lookup_cache |-> DictPut(lcache, addr_key, DictGet(symbols, addr_key)),
             range_cache |-> rcache]
       ELSE IF DictHas(rcache, addr_key)
       THEN [result |-> DictGet(rcache, addr_key), lookup_cache |-> lcache, range_cache |-> rcache]
       ELSE IF closest # Nil /\ closest # <<>>
       THEN [result |-> closest, lookup_cache |-> lcache,
             range_cache |-> DictPut(rcache, addr_key, closest)]
       ELSE [result |-> Nil, lookup_cache |-> DictPut(lcache, addr_key, Nil),
             range_cache |-> rcache]

\* find_symbol_by_address run by a worker thread next to others
\*
\* A worker holds [pc, address, result]. One step is one access to a shared
\* dictionary: a membership test, a read or an insertion. The table itself is
\* not written after construction, so the nearest scan is local to the worker.

IdleWorker == [pc |-> "idle", address |-> Nil, result |-> Nil, calls |-> 0]

\* The exact hit marks the cache entry before the name is read from the table.
FindSymbolStepMarkFirst(wk, symbols, lcache, rcache) ==
    LET addr_key == AddrKey(wk.address)
        same == [worker |-> wk, lookup_cache |-> lcache, range_cache |-> rcache]
    IN CASE wk.pc = "check_lookup" ->
              [same EXCEPT !.worker.pc = IF DictHas(lcache, addr_key)
                                         THEN "read_lookup" ELSE "check_symbols"]
         [] wk.pc = "read_lookup" ->
              [same EXCEPT !.worker.pc = "returned",
                           !.worker.result = DictGet(lcache, addr_key)]
         [] wk.pc = "check_symbols" ->
              IF DictHas(symbols, addr_key)
              THEN [same EXCEPT !.worker.pc = "store_exact",
                                !.worker.result = DictGet(symbols, addr_key),
                                !.lookup_cache = DictPut(lcache, addr_key, Nil)]
              ELSE [same EXCEPT !.worker.pc = "check_range"]
         [] wk.pc = "store_exact" ->
              [same EXCEPT !.worker.pc = "returned",
                           !.lookup_cache = DictPut(lcache, addr_key, wk.result)]
         [] wk.pc = "check_range" ->
              [same EXCEPT !.worker.pc = IF DictHas(rcache, addr_key)
                                         THEN "read_range" ELSE "scan"]
         [] wk.pc = "read_range" ->
              [same EXCEPT !.worker.pc = "returned",
                           !.worker.result = DictGet(rcache, addr_key)]
         [] wk.pc = "scan" ->
              LET closest == NearestSymbol(symbols, NormalizeAddress(wk.address))
              IN IF closest # Nil /\ closest # <<>>
                 THEN [same EXCEPT !.worker.pc = "store_range", !.worker.result = closest]
                 ELSE [same EXCEPT !.worker.pc = "store_miss"]
         [] wk.pc = "store_range" ->
              [same EXCEPT !.worker.pc = "returned",
                           !.range_cache = DictPut(rcache, addr_key, wk.result)]
         [] wk.pc = "store_miss" ->
              [same EXCEPT !.worker.pc = "returned",
                           !.worker.result = Nil,
                           !.lookup_cache = DictPut(lcache, addr_key, Nil)]
         [] OTHER -> same

\* The next dictionary access of the call a worker has under way: the worker
\* and the two caches after it.
FindSymbolStep(wk, symbols, lcache, rcache) ==
    LET addr_key == AddrKey(wk.address)
        same == [worker |-> wk, lookup_cache |-> lcache, range_cache |-> rcache]
    IN CASE wk.pc = "check_lookup" ->
              [same EXCEPT !.worker.pc = IF DictHas(lcache, addr_key)
                                         THEN "read_lookup" ELSE "check_symbols"]
         [] wk.pc = "read_lookup" ->
              [same EXCEPT !.worker.pc = "returned",
                           !.worker.result = DictGet(lcache, addr_key)]
         [] wk.pc = "check_symbols" ->
              IF DictHas(symbols, addr_key)
              THEN [same EXCEPT !.worker.pc = "store_exact",
                                !.worker.result = DictGet(symbols, addr_key)]
              ELSE [same EXCEPT !.worker.pc = "check_range"]
         [] wk.pc = "store_exact" ->
              [same EXCEPT !.worker.pc = "returned",
                           !.lookup_cache = DictPut(lcache, addr_key, wk.result)]
         [] wk.pc = "check_range" ->
              [same EXCEPT !.worker.pc = IF DictHas(rcache, addr_key)
                                         THEN "read_range" ELSE "scan"]
         [] wk.pc = "read_range" ->
              [same EXCEPT !.worker.pc = "returned",
                           !.worker.result = DictGet(rcache, addr_key)]
         [] wk.pc = "scan" ->
              LET closest == NearestSymbol(symbols, NormalizeAddress(wk.address))
              IN IF closest # Nil /\ closest # <<>>
                 THEN [same EXCEPT !.worker.pc = "store_range", !.worker.result = closest]
                 ELSE [same EXCEPT !.worker.pc = "store_miss"]
         [] wk.pc = "store_range" ->
              [same EXCEPT !.worker.pc = "returned",
                           !.range_cache = DictPut(rcache, addr_key, wk.result)]
         [] wk.pc = "store_miss" ->
              [same EXCEPT !.worker.pc = "returned",
                           !.worker.result = Nil,
                           !.lookup_cache = DictPut(lcache, addr_key, Nil)]
         [] OTHER -> same

----------------------------------------------------------------------------
\* Inputs of the symbol-table model

NameFooBar == <<"f","o","o","_","b","a","r">>
NameOsTask == <<"O","s","_","T","a","s","k">>
NameFooBaz == <<"f","o","o","_","b","a","z">>
NameIsrRx == <<"i","s","r","_","r","x">>
NameBarVar == <<"b","a","r","_","v","a","r">>
NameGState == <<"g","_","s","t","a","t","e">>
FieldSecText == <<"s","e","c",".","t","e","x","t">>
FieldSpace == <<"m","p","e",":","v","t","c">>

Addr1000ABCD == <<"0","x","1","0","0","0","A","B","C","D">>
Addr10000000 == <<"0","x","1","0","0","0","0","0","0","0">>
Addr10000FFF == <<"0","x","1","0","0","0","0","F","F","F">>
Addr10001000 == <<"0","x","1","0","0","0","1","0","0","0">>
Addr10003000 == <<"0","x","1","0","0","0","3","0","0","0">>

Sep == <<" ","|"," ">>
\* "| a | b |"
Row2(a, b) == <<"|"," ">> \o a \o Sep \o b \o <<" ","|">>
\* "| a | b | c |"
Row3(a, b, c) == <<"|"," ">> \o a \o Sep \o b \o Sep \o c \o <<" ","|">>

RowNameFirst == Row2(NameFooBar, Addr1000ABCD)
RowAddrFirst == Row2(Addr10000000, NameOsTask)
RowNoLeadingPipe == NameFooBaz \o Sep \o Addr10001000
RowIndented == <<" "," ">> \o Row3(FieldSpace, Addr10000FFF, NameIsrRx)
RowDotted == Row3(Addr10003000, FieldSecText, NameBarVar)
RowDuplicate == Row2(NameGState, Addr10000000)

MapRows == {RowNameFirst, RowAddrFirst, RowNoLeadingPipe, RowIndented, RowDotted, RowDuplicate}

\* The longest map file of the model, in lines.
MaxRows == 2

MapContents == UNION {[1..n -> MapRows] : n \in 0..MaxRows}

Queries == {Addr1000ABCD, Addr10000000, Addr10000FFF, Addr10001000}

\* The worker threads of the model that look symbols up at the same time.
NumFileWorkers == 2
\* The lookups the workers make between them.
MaxLookups == 2

----------------------------------------------------------------------------
\* TrapAnalyzer: log text
\*
\* A log text is a sequence of tokens: one-character strings, and one token
\* for each fixed marker of the TRAP dump (config.log_patterns):
\*   "RI"  {TRAP-RST}:Reset Info:      "RT"  {TRAP-RST}:Reset Type:
\*   "DE"  {TRAP-RST}:DEADD:           "FN"  {TRAP-RST}:Func
\*   "DI"  {TRAP-RST}:DIEAR:           "PAD" 100 characters of other log text
\*   "CUT" the rest of a token that a slice cut through
\* Offsets are counted in characters.

TokLen(t) ==
    CASE t = "RI" -> 22 [] t = "RT" -> 22 [] t = "DE" -> 17 [] t = "FN" -> 15
      [] t = "DI" -> 17 [] t = "PAD" -> 100 [] OTHER -> 1

MarkerTokens == {"RI", "RT", "DE", "FN", "DI", "PAD"}

\* The character offset of every token, and of the end of the text (last entry):
\* one per token before it, and the rest of the length of every marker before it.
Offsets(text) ==
    [i \in 1..(Len(text) + 1) |->
        LET before == {j \in 1..(i - 1) : text[j] \in MarkerTokens}
            extra[t \in MarkerTokens] == (TokLen(t) - 1) * Cardinality({j \in before : text[j] = t})
        IN (i - 1) + extra["RI"] + extra["RT"] + extra["DE"] + extra["FN"] + extra["DI"]
                   + extra["PAD"]]

\* len(content)
TextLen(text) == Offsets(text)[Len(text) + 1]

\* content[start_pos:end_pos] for a start_pos at the start of a token
Slice(text, start_pos, end_pos) ==
    LET off == Offsets(text)
        first == Len(text) - Cardinality({i \in 1..Len(text) : off[i] >= start_pos}) + 1
        last == Cardinality({i \in 1..Len(text) : off[i + 1] <= end_pos})
        cut == last < Len(text) /\ off[last + 1] >= start_pos /\ off[last + 1] < end_pos
    IN SubSeq(text, first, last) \o (IF cut THEN <<"CUT">> ELSE <<>>)

\* content[:pos].count('\n') + 1 for the token at index i
LineNumberAt(text, i) == Cardinality({j \in 1..(i - 1) : text[j] = "\n"}) + 1

\* len(content.split('\n'))
LineCount(text) == Cardinality({j \in 1..Len(text) : text[j] = "\n"}) + 1

\* The token at index k, "" beyond the text.
At(text, k) == IF k \in 1..Len(text) THEN text[k] ELSE ""

\* The character classes of the patterns: \s, [0-9a-fA-F] and [\d,]
SpaceSet == {" ", "\t", "\n", "\r"}
HexDigitSet == DigitSet \cup HexLetterSet
CountCharSet == DigitSet \cup {","}

\* The end of the longest run of characters of a class that starts at index i
\* (i - 1 when there is none): a greedy \d+, [0-9a-fA-F]+, \s* or [\d,]+.
RunEnd(text, i, cls) ==
    IF i > Len(text) \/ At(text, i) \notin cls THEN i - 1
    ELSE CHOOSE e \in i..Len(text) :
            /\ \A k \in i..e : text[k] \in cls
            /\ (e = Len(text) \/ text[e + 1] \notin cls)

\* int(text) for decimal digits
RECURSIVE DecFold(_, _)
DecFold(digits, acc) ==
    IF digits = <<>> THEN acc
    ELSE DecFold(Tail(digits), acc * 10 + (IndexOf(Digits, Head(digits)) - 1))

DecVal(digits) == DecFold(digits, 0)

\* trap_reset_type_pattern  \{TRAP-RST\}:Reset Type:\s*(\d+)  matched at index i:
\* group 1, Nil for no match
MatchResetTypeAt(text, i) ==
    LET s == RunEnd(text, i + 1, SpaceSet) + 1
        e == RunEnd(text, s, DigitSet)
    IN IF At(text, i) = "RT" /\ e >= s THEN SubSeq(text, s, e) ELSE Nil

\* trap_deadd_pattern  \{TRAP-RST\}:DEADD:\s*([0-9a-fA-F]+)  matched at index i
MatchDeaddAt(text, i) ==
    LET s == RunEnd(text, i + 1, SpaceSet) + 1
        e == RunEnd(text, s, HexDigitSet)
    IN IF At(text, i) = "DE" /\ e >= s THEN SubSeq(text, s, e) ELSE Nil

\* trap_func_pattern  \{TRAP-RST\}:Func(\d+):\s*0x([0-9a-fA-F]+)  matched at
\* index i: groups 1 and 2 as num and addr
MatchFuncAt(text, i) ==
    LET de == RunEnd(text, i + 1, DigitSet)
        s == RunEnd(text, de + 2, SpaceSet) + 1
        he == RunEnd(text, s + 2, HexDigitSet)
    IN IF /\ At(text, i) = "FN"
          /\ de >= i + 1
          /\ At(text, de + 1) = ":"
          /\ At(text, s) = "0" /\ At(text, s + 1) = "x"
          /\ he >= s + 2
       THEN [matched |-> TRUE, num |-> SubSeq(text, i + 1, de),
             addr |-> SubSeq(text, s + 2, he)]
       ELSE [matched |-> FALSE]

\* re.search(pattern, trap_block).group(1), Nil without a match
SearchResetType(block) ==
    IF \E i \in 1..Len(block) : MatchResetTypeAt(block, i) # Nil
    THEN MatchResetTypeAt(block, CHOOSE i \in 1..Len(block) :
             /\ MatchResetTypeAt(block, i) # Nil
             /\ \A k \in 1..(i - 1) : MatchResetTypeAt(block, k) = Nil)
    ELSE Nil

SearchDeadd(block) ==
    IF \E i \in 1..Len(block) : MatchDeaddAt(block, i) # Nil
    THEN MatchDeaddAt(block, CHOOSE i \in 1..Len(block) :
             /\ MatchDeaddAt(block, i) # Nil
             /\ \A k \in 1..(i - 1) : MatchDeaddAt(block, k) = Nil)
    ELSE Nil

\* re.findall(trap_func_pattern, trap_block): the matches in text order
FindAllFunc(block) ==
    LET at == {i \in 1..Len(block) : MatchFuncAt(block, i).matched}
    IN [k \in 1..Cardinality(at) |->
           MatchFuncAt(block, CHOOSE i \in at : Cardinality({j \in at : j < i}) = k - 1)]

----------------------------------------------------------------------------
\* TrapAnalyzer: one block

\* `if not addr.lower().startswith('0x'): addr = '0x' + addr`
EnsureHexPrefix(addr) ==
    IF ~StartsWith(Lower(addr), HexPrefix) THEN HexPrefix \o addr ELSE addr

\* trap_info.func_addresses[int(func_num_str)] = func_addr over the matches
RECURSIVE FuncAddresses(_, _)
FuncAddresses(matches, dict) ==
    IF matches = <<>> THEN dict
    ELSE FuncAddresses(Tail(matches),
                       DictPut(dict, DecVal(Head(matches).num), EnsureHexPrefix(Head(matches).addr)))

\* The entry of the first Func line of the block is selected.
SelectFuncFirst(func_addresses) == func_addresses[1].k

\* max(trap_info.func_addresses.keys())
SelectFunc(func_addresses) ==
    CHOOSE n \in DictKeys(func_addresses) : \A m \in DictKeys(func_addresses) : m <= n

\* Python truthiness of an optional text
Truthy(x) == x # Nil /\ x # <<>>

NoTrapInfo == [none |-> TRUE]

\* A block is dropped only when it has no reset type.
IsDiscardedNoType(rest_type, deadd_address, func_addresses) == ~Truthy(rest_type)

\* `not rest_type and not deadd_address and not func_addresses`
IsDiscarded(rest_type, deadd_address, func_addresses) ==
    ~Truthy(rest_type) /\ ~Truthy(deadd_address) /\ func_addresses = <<>>

\* _parse_trap_block: the TrapInfo of a block, NoTrapInfo for None. The None of
\* max_func_num is -1 (no index of a Func line is negative) and the line
\* numbers, set by the caller, start as 0.
ParseTrapBlock(trap_block) ==
    LET rest_type == SearchResetType(trap_block)
        deadd == SearchDeadd(trap_block)
        deadd_address == IF deadd # Nil THEN EnsureHexPrefix(deadd) ELSE Nil
        func_addresses == FuncAddresses(FindAllFunc(trap_block), <<>>)
        has_func == func_addresses # <<>>
    IN IF IsDiscarded(rest_type, deadd_address, func_addresses) THEN NoTrapInfo
       ELSE [none |-> FALSE,
             rest_type |-> rest_type,
             deadd_address |-> deadd_address,
             func_addresses |-> func_addresses,
             max_func_num |-> IF has_func THEN SelectFunc(func_addresses) ELSE -1,
             max_func_address |-> IF has_func
                                  THEN DictGet(func_addresses, SelectFunc(func_addresses))
                                  ELSE Nil,
             start_line_number |-> 0,
             end_line_number |-> 0,
             parameter_name |-> Nil,
             function_name |-> Nil,
             restart_reason |-> Nil]

----------------------------------------------------------------------------
\* TrapAnalyzer: names and diagnosis

LitFuncAt == <<"f","u","n","c","_","a","t","_">>
LitParamAt == <<"p","a","r","a","m","_","a","t","_">>
LitInterruptHandler == <<"i","n","t","e","r","r","u","p","t","_","h","a","n","d","l","e","r","_">>
LitUnknownFunc == <<"u","n","k","n","o","w","n","_","f","u","n","c","_">>
LitRamVar == <<"r","a","m","_","v","a","r","_">>
LitRomConst == <<"r","o","m","_","c","o","n","s","t","_">>
LitUnknownVar == <<"u","n","k","n","o","w","n","_","v","a","r","_">>
LitInvalidAddr == <<"i","n","v","a","l","i","d","_","a","d","d","r","_">>

\* lo <= int(addr, 16) <= hi for hex texts lo, hi
InHexRange(addr, lo, hi) == ValLeq(HexVal(lo), HexVal(addr)) /\ ValLeq(HexVal(addr), HexVal(hi))

Hex80000000 == <<"0","x","8","0","0","0","0","0","0","0">>
Hex8FFFFFFF == <<"0","x","8","F","F","F","F","F","F","F">>
Hex90000000 == <<"0","x","9","0","0","0","0","0","0","0">>
Hex9FFFFFFF == <<"0","x","9","F","F","F","F","F","F","F">>
HexD0000000 == <<"0","x","D","0","0","0","0","0","0","0">>
HexDFFFFFFF == <<"0","x","D","F","F","F","F","F","F","F">>

\* find_function_by_pattern
FindFunctionByPattern(addr) ==
    IF ~HexValid(addr) THEN LitInvalidAddr \o addr
    ELSE IF InHexRange(addr, Hex80000000, Hex8FFFFFFF) THEN LitFuncAt \o addr
    ELSE IF InHexRange(addr, Hex90000000, Hex9FFFFFFF) THEN LitInterruptHandler \o addr
    ELSE LitUnknownFunc \o addr

\* find_variable_by_pattern
FindVariableByPattern(addr) ==
    IF ~HexValid(addr) THEN LitInvalidAddr \o addr
    ELSE IF InHexRange(addr, HexD0000000, HexDFFFFFFF) THEN LitRamVar \o addr
    ELSE IF InHexRange(addr, Hex80000000, Hex8FFFFFFF) THEN LitRomConst \o addr
    ELSE LitUnknownVar \o addr

\* Without a map parser the names come from the address-range generators.
ResolveSymbolsNoMapAsMiss(info, has_parser, syms, lcache, rcache) ==
    [info |-> [info EXCEPT
                 !.parameter_name = IF Truthy(info.deadd_address)
                                    THEN FindVariableByPattern(info.deadd_address) ELSE @,
                 !.function_name = IF Truthy(info.max_func_address)
                                   THEN FindFunctionByPattern(info.max_func_address) ELSE @],
     lookup_cache |-> lcache, range_cache |-> rcache]

\* On a miss the function generator names the fault address and the variable
\* generator names the Func address.
ResolveSymbolsGeneratorsSwapped(info, has_parser, syms, lcache, rcache) ==
    IF ~has_parser
    THEN [info |-> [info EXCEPT
                      !.parameter_name = IF Truthy(info.deadd_address)
                                         THEN LitParamAt \o info.deadd_address ELSE @,
                      !.function_name = IF Truthy(info.max_func_address)
                                        THEN LitFuncAt \o info.max_func_address ELSE @],
          lookup_cache |-> lcache, range_cache |-> rcache]
    ELSE LET p == IF Truthy(info.deadd_address)
                  THEN FindSymbolByAddress(syms, lcache, rcache, info.deadd_address)
                  ELSE [result |-> Nil, lookup_cache |-> lcache, range_cache |-> rcache]
             f == IF Truthy(info.max_func_address)
                  THEN FindSymbolByAddress(syms, p.lookup_cache, p.range_cache,
                                           info.max_func_address)
                  ELSE [result |-> Nil, lookup_cache |-> p.lookup_cache,
                        range_cache |-> p.range_cache]
         IN [info |-> [info EXCEPT
                         !.parameter_name =
                             IF ~Truthy(info.deadd_address) THEN @
                             ELSE IF Truthy(p.result) THEN p.result
                             ELSE FindFunctionByPattern(info.deadd_address),
                         !.function_name =
                             IF ~Truthy(info.max_func_address) THEN @
                             ELSE IF Truthy(f.result) THEN f.result
                             ELSE FindVariableByPattern(info.max_func_address)],
             lookup_cache |-> f.lookup_cache, range_cache |-> f.range_cache]

\* Without a map file the names are left unset.
ResolveSymbolsNoGeneratedNames(info, has_parser, syms, lcache, rcache) ==
    IF ~has_parser
    THEN [info |-> info, lookup_cache |-> lcache, range_cache |-> rcache]
    ELSE LET p == IF Truthy(info.deadd_address)
                  THEN FindSymbolByAddress(syms, lcache, rcache, info.deadd_address)
                  ELSE [result |-> Nil, lookup_cache |-> lcache, range_cache |-> rcache]
             f == IF Truthy(info.max_func_address)
                  THEN FindSymbolByAddress(syms, p.lookup_cache, p.range_cache,
                                           info.max_func_address)
                  ELSE [result |-> Nil, lookup_cache |-> p.lookup_cache,
                        range_cache |-> p.range_cache]
         IN [info |-> [info EXCEPT
                         !.parameter_name =
                             IF ~Truthy(info.deadd_address) THEN @
                             ELSE IF Truthy(p.result) THEN p.result
                             ELSE FindVariableByPattern(info.deadd_address),
                         !.function_name =
                             IF ~Truthy(info.max_func_address) THEN @
                             ELSE IF Truthy(f.result) THEN f.result
                             ELSE FindFunctionByPattern(info.max_func_address)],
             lookup_cache |-> f.lookup_cache, range_cache |-> f.range_cache]

\* _resolve_symbols: the TrapInfo with its names, and the caches after the lookups
ResolveSymbols(info, has_parser, syms, lcache, rcache) ==
    IF ~has_parser
    THEN [info |-> [info EXCEPT
                      !.parameter_name = IF Truthy(info.deadd_address)
                                         THEN LitParamAt \o info.deadd_address ELSE @,
                      !.function_name = IF Truthy(info.max_func_address)
                                        THEN LitFuncAt \o info.max_func_address ELSE @],
          lookup_cache |-> lcache, range_cache |-> rcache]
    ELSE LET p == IF Truthy(info.deadd_address)
                  THEN FindSymbolByAddress(syms, lcache, rcache, info.deadd_address)
                  ELSE [result |-> Nil, lookup_cache |-> lcache, range_cache |-> rcache]
             f == IF Truthy(info.max_func_address)
                  THEN FindSymbolByAddress(syms, p.lookup_cache, p.range_cache,
                                           info.max_func_address)
                  ELSE [result |-> Nil, lookup_cache |-> p.lookup_cache,
                        range_cache |-> p.range_cache]
         IN [info |-> [info EXCEPT
                         !.parameter_name =
                             IF ~Truthy(info.deadd_address) THEN @
                             ELSE IF Truthy(p.result) THEN p.result
                             ELSE FindVariableByPattern(info.deadd_address),
                         !.function_name =
                             IF ~Truthy(info.max_func_address) THEN @
                             ELSE IF Truthy(f.result) THEN f.result
                             ELSE FindFunctionByPattern(info.max_func_address)],
             lookup_cache |-> f.lookup_cache, range_cache |-> f.range_cache]

\* The fixed texts of the diagnosis, one token each (the source texts are Chinese):
\*   "<reason:>" restart reason + colon       "[[" "]]" the brackets around a name
\*   "<accesses>" accesses                    "<memory>" memory
\*   "<entered Trap>" abnormally entered Trap "<unknown function>" unknown function
\*   "<reset type: >" restart type + ": "     "<entered TRAP>" abnormally entered TRAP
\*   "<unknown reason>" unknown restart reason
ReasonBoth(f, p) ==
    <<"<reason:>", "[[">> \o f \o <<"]]", "<accesses>", "[[">> \o p \o <<"]]", "<entered Trap>">>
ReasonFunctionOnly(f) ==
    <<"<reason:>", "[[">> \o f \o <<"]]", "<accesses>", "<memory>", "<entered Trap>">>
ReasonParameterOnly(p) ==
    <<"<reason:>", "<unknown function>", "<accesses>", "[[">> \o p \o <<"]]", "<entered Trap>">>

\* " ".join(reason_parts) if reason_parts else the unknown-reason text
ReasonFallback(info) ==
    LET type_part == IF Truthy(info.rest_type) THEN <<"<reset type: >">> \o info.rest_type ELSE <<>>
        trap_part == IF Truthy(info.deadd_address) \/ Truthy(info.max_func_address)
                     THEN <<"<entered TRAP>">> ELSE <<>>
    IN IF type_part # <<>> /\ trap_part # <<>> THEN type_part \o <<" ">> \o trap_part
       ELSE IF type_part # <<>> THEN type_part
       ELSE IF trap_part # <<>> THEN trap_part
       ELSE <<"<unknown reason>">>

\* The branches on the function name come after the one on the parameter name.
RestartReasonParameterFirst(info) ==
    IF Truthy(info.function_name) /\ Truthy(info.parameter_name)
    THEN ReasonBoth(info.function_name, info.parameter_name)
    ELSE IF Truthy(info.parameter_name) THEN ReasonParameterOnly(info.parameter_name)
    ELSE IF Truthy(info.function_name) THEN ReasonParameterOnly(info.function_name)
    ELSE ReasonFallback(info)

\* The fallback lists the address part only.
RestartReasonNoTypePart(info) ==
    IF Truthy(info.function_name) /\ Truthy(info.parameter_name)
    THEN ReasonBoth(info.function_name, info.parameter_name)
    ELSE IF Truthy(info.function_name) THEN ReasonFunctionOnly(info.function_name)
    ELSE IF Truthy(info.parameter_name) THEN ReasonParameterOnly(info.parameter_name)
    ELSE IF Truthy(info.deadd_address) \/ Truthy(info.max_func_address)
    THEN <<"<entered TRAP>">> ELSE <<>>

\* _generate_restart_reason: the value of trap_info.restart_reason
RestartReason(info) ==
    IF Truthy(info.function_name) /\ Truthy(info.parameter_name)
    THEN ReasonBoth(info.function_name, info.parameter_name)
    ELSE IF Truthy(info.function_name) THEN ReasonFunctionOnly(info.function_name)
    ELSE IF Truthy(info.parameter_name) THEN ReasonParameterOnly(info.parameter_name)
    ELSE ReasonFallback(info)

----------------------------------------------------------------------------
\* TrapAnalyzer.analyze_trap_logs

\* `end_pos = diear_pos + 200`
DiearWindow == 200
\* `min(start_pos + 5000, len(content))`
MaxBlockSpan == 5000

\* The indices of the tokens equal to marker, ascending (re.finditer).
MarkerIndices(text, marker) ==
    LET at == {i \in 1..Len(text) : text[i] = marker}
    IN [k \in 1..Cardinality(at) |-> CHOOSE i \in at : Cardinality({j \in at : j < i}) = k - 1]

Min(a, b) == IF a <= b THEN a ELSE b

\* The block ends where the next Reset Info marker starts whenever there is
\* one; a DIEAR marker ends the last block only.
BlockEndAtNextMarker(text, k) ==
    LET off == Offsets(text)
        resets == MarkerIndices(text, "RI")
        diears == MarkerIndices(text, "DI")
        start_pos == off[resets[k]]
        d == FirstIndex([j \in 1..Len(diears) |-> off[diears[j]] > start_pos],
                        1, Len(diears), LAMBDA x : x)
    IN IF k + 1 <= Len(resets)
       THEN [end_pos |-> off[resets[k + 1]],
             end_line |-> LineNumberAt(text, resets[k + 1]) - 1]
       ELSE IF d # 0
       THEN [end_pos |-> off[diears[d]] + DiearWindow,
             end_line |-> LineNumberAt(text, diears[d])]
       ELSE [end_pos |-> Min(start_pos + MaxBlockSpan, TextLen(text)),
             end_line |-> LineCount(text)]

\* end_pos and end_line of the block of the k-th Reset Info marker
BlockEnd(text, k) ==
    LET off == Offsets(text)
        resets == MarkerIndices(text, "RI")
        diears == MarkerIndices(text, "DI")
        start_pos == off[resets[k]]
        d == FirstIndex([j \in 1..Len(diears) |-> off[diears[j]] > start_pos],
                        1, Len(diears), LAMBDA x : x)
    IN IF d # 0
       THEN [end_pos |-> off[diears[d]] + DiearWindow,
             end_line |-> LineNumberAt(text, diears[d])]
       ELSE IF k + 1 <= Len(resets)
       THEN [end_pos |-> off[resets[k + 1]],
             end_line |-> LineNumberAt(text, resets[k + 1]) - 1]
       ELSE [end_pos |-> Min(start_pos + MaxBlockSpan, TextLen(text)),
             end_line |-> LineCount(text)]

\* trap_block = content[start_pos:end_pos] of the k-th Reset Info marker
TrapBlock(text, k) ==
    LET resets == MarkerIndices(text, "RI")
    IN Slice(text, Offsets(text)[resets[k]], BlockEnd(text, k).end_pos)

\* The loop over reset_info_matches from the k-th marker on; acc holds
\* trap_infos and the caches of the map parser.
RECURSIVE AnalyzeFrom(_, _, _, _, _)
AnalyzeFrom(text, k, has_parser, syms, acc) ==
    IF k > Len(MarkerIndices(text, "RI")) THEN acc
    ELSE LET parsed == ParseTrapBlock(TrapBlock(text, k))
             placed == [parsed EXCEPT
                          !.start_line_number = LineNumberAt(text, MarkerIndices(text, "RI")[k]),
                          !.end_line_number = BlockEnd(text, k).end_line]
             r == ResolveSymbols(placed, has_parser, syms, acc.lookup_cache, acc.range_cache)
         IN AnalyzeFrom(text, k + 1, has_parser, syms,
                IF parsed.none THEN acc
                ELSE [trap_infos |-> Append(acc.trap_infos,
                                        [r.info EXCEPT !.restart_reason = RestartReason(r.info)]),
                      lookup_cache |-> r.lookup_cache,
                      range_cache |-> r.range_cache])

\* analyze_trap_logs: the list returned and the caches after the call
AnalyzeTrapLogs(text, has_parser, syms, lcache, rcache) ==
    AnalyzeFrom(text, 1, has_parser, syms,
                [trap_infos |-> <<>>, lookup_cache |-> lcache, range_cache |-> rcache])

----------------------------------------------------------------------------
\* Inputs of the TRAP model

Nl == <<"\n">>
LineResetInfo == <<"RI">> \o Nl
LineResetType(digits) == <<"RT", " ">> \o digits \o Nl
LineDeadd(hex) == <<"DE", " ">> \o hex \o Nl
LineFunc(num, hex) == <<"FN">> \o num \o <<":", " ", "0", "x">> \o hex \o Nl
LineDiear == <<"DI", " ", "0">> \o Nl

Hex1000ABCD == <<"1","0","0","0","A","B","C","D">>
HexD0001234 == <<"D","0","0","0","1","2","3","4">>
Hex80001000 == <<"8","0","0","0","1","0","0","0">>
Hex10000FFF == <<"1","0","0","0","0","F","F","F">>
Hex90002000 == <<"9","0","0","0","2","0","0","0">>

\* A marker and nothing that parses: the reset type has no digits.
SegEmpty == LineResetInfo \o <<"RT", " ", "z">> \o Nl
\* A reset type and nothing else.
SegTypeOnly == LineResetInfo \o LineResetType(<<"3">>)
\* A whole dump: Func0=0x1000, Func2=0x2000, Func1=0x3000.
SegFull ==
    LineResetInfo \o LineResetType(<<"0">>) \o LineDeadd(Hex1000ABCD)
    \o LineFunc(<<"0">>, <<"1","0","0","0">>) \o LineFunc(<<"2">>, <<"2","0","0","0">>)
    \o LineFunc(<<"1">>, <<"3","0","0","0">>) \o LineDiear
\* A fault address only, no DIEAR line.
SegDeadd == LineResetInfo \o LineDeadd(HexD0001234)
\* A fault address and Func entries, Func10 before Func9.
SegFuncs ==
    LineResetInfo \o LineDeadd(Hex80001000) \o LineFunc(<<"1","0">>, Hex80001000)
    \o LineFunc(<<"9">>, Hex10000FFF) \o LineDiear
\* Func entries only, no DIEAR line: Func1 twice (as 1 and as 01).
SegFuncTwice ==
    LineResetInfo \o LineFunc(<<"1">>, Hex10000FFF) \o LineFunc(<<"0","1">>, Hex90002000)

Segments == {SegEmpty, SegTypeOnly, SegFull, SegDeadd, SegFuncs, SegFuncTwice}

\* The most Reset Info dumps in one log text.
MaxSegments == 2

RECURSIVE Concat(_)
Concat(seqs) == IF seqs = <<>> THEN <<>> ELSE Head(seqs) \o Concat(Tail(seqs))

Contents == {Concat(c) : c \in UNION {[1..n -> Segments] : n \in 0..MaxSegments}}

\* Filler of n times 100 characters that match nothing.
Pad(n) == [i \in 1..n |-> "PAD"]

\* A fault address 120 characters after the DIEAR marker: inside the window.
SegWindowIn ==
    LineResetInfo \o LineResetType(<<"3">>) \o LineDiear \o Pad(1) \o LineDeadd(Hex1000ABCD)
\* A fault address 220 characters after the DIEAR marker: outside the window.
SegWindowOut ==
    LineResetInfo \o LineResetType(<<"3">>) \o LineDiear \o Pad(2) \o LineDeadd(HexD0001234)
\* No DIEAR line; the fault address ends 4975 characters after the marker.
SegLongIn == LineResetInfo \o LineResetType(<<"3">>) \o Pad(49) \o LineDeadd(Hex80001000)
\* No DIEAR line; the fault address starts 5048 characters after the marker.
SegLongOut == LineResetInfo \o LineResetType(<<"3">>) \o Pad(50) \o LineDeadd(Hex80001000)

ExtentSegments == {SegWindowIn, SegWindowOut, SegLongIn, SegLongOut, SegDeadd}

\* The log texts on which the extent of a block is decided by the window after
\* DIEAR, by the next marker or by the longest span.
ExtentContents == {Concat(c) : c \in UNION {[1..n -> ExtentSegments] : n \in 0..MaxSegments}}

\* A marker and its reset type on one line, with no line break after them.
SegInline == <<"RI", " ", "RT", " ", "3", " ">>

LineSegments == {SegInline, SegTypeOnly, SegDeadd, SegFull}

\* The log texts in which a marker may follow another on the same line.
LineContents == {Concat(c) : c \in UNION {[1..n -> LineSegments] : n \in 0..MaxSegments}}

\* The map files of the TRAP model.
TrapMaps == {<<>>, <<RowNameFirst, RowAddrFirst>>}

----------------------------------------------------------------------------
\* SOAAnalyzer: log lines
\*
\* A log line is a sequence of tokens: one-character strings, and one token for
\* each fixed piece the two patterns of parse_soa_line look for:
\*   "TS1", "TS2"  a timestamp  \d{4}-\d{2}-\d{2} \d{2}:\d{2}:\d{2}\.\d{3}
\*   "CNT"         SOA cnt on          "DROP"  SOA ASW drop cnt on
\*   "ZCAN"        (ZCAN)

Timestamps == {"TS1", "TS2"}

\* (timestamp) at index i and <marker>(\d+):([\d,]+) at index j: the groups
MatchSoaAt(line, marker, i, j) ==
    LET de == RunEnd(line, j + 1, DigitSet)
    IN IF /\ i < j /\ line[i] \in Timestamps /\ line[j] = marker
          /\ de >= j + 1 /\ At(line, de + 1) = ":" /\ At(line, de + 2) \in CountCharSet
       THEN [matched |-> TRUE, i |-> i, j |-> j, timestamp |-> line[i],
             base |-> SubSeq(line, j + 1, de),
             counts_str |-> SubSeq(line, de + 2, RunEnd(line, de + 2, CountCharSet))]
       ELSE [matched |-> FALSE, i |-> i, j |-> j, timestamp |-> "", base |-> <<>>,
             counts_str |-> <<>>]

\* The match re.search reports: the one with the leftmost timestamp and, the
\* text between being matched lazily, the first marker after it.
FirstMatch(candidates) ==
    IF \A c \in candidates : ~c.matched THEN [matched |-> FALSE]
    ELSE CHOOSE x \in candidates :
            /\ x.matched
            /\ \A y \in candidates :
                  y.matched => x.i < y.i \/ (x.i = y.i /\ x.j <= y.j)

\* re.search of  (timestamp).*?(?:\(ZCAN\)\s*)?<marker>(\d+):([\d,]+)  in a line
SearchSoa(line, marker) ==
    FirstMatch({MatchSoaAt(line, marker, i, j) : i \in 1..Len(line), j \in 1..Len(line)})

\* [int(x) for x in counts_str.split(',')]: int('') raises ValueError
CountsRaise(counts_str) == \E i \in 1..Len(Split(counts_str, ",")) : Split(counts_str, ",")[i] = <<>>

ParseCounts(counts_str) ==
    LET items == Split(counts_str, ",")
    IN [i \in 1..Len(items) |-> DecVal(items[i])]

\* One SOAData out of a match.
MakeSoaData(m, data_type, line_number) ==
    IF CountsRaise(m.counts_str) THEN [status |-> "raise"]
    ELSE [status |-> "ok",
          data |-> [timestamp |-> m.timestamp, base_index |-> DecVal(m.base),
                    counts |-> ParseCounts(m.counts_str), data_type |-> data_type,
                    line_number |-> line_number]]

\* The SOAData of the count match, else of the drop match, else None.
SoaDataOf(cnt_match, drop_match, line_number) ==
    IF cnt_match.matched THEN MakeSoaData(cnt_match, "cnt", line_number)
    ELSE IF drop_match.matched THEN MakeSoaData(drop_match, "drop", line_number)
    ELSE [status |-> "none"]

\* parse_soa_line: an SOAData ("ok"), None ("none") or an exception ("raise")
ParseSoaLine(line, line_number) ==
    SoaDataOf(SearchSoa(line, "CNT"), SearchSoa(line, "DROP"), line_number)

\* One turn of the loop of parse_log_file on what parse_soa_line gave.
AppendParsed(acc, r) ==
    IF r.status = "raise" THEN [acc EXCEPT !.raised = TRUE]
    ELSE IF r.status = "ok"
    THEN [acc EXCEPT !.list = Append(@, r.data), !.soa_count = @ + 1]
    ELSE acc

\* The loop of parse_log_file from line k on: the list, the count and whether a
\* line raised (the loop ends there).
RECURSIVE ParseLinesFrom(_, _, _)
ParseLinesFrom(lines, k, acc) ==
    IF k > Len(lines) \/ acc.raised THEN acc
    ELSE ParseLinesFrom(lines, k + 1, AppendParsed(acc, ParseSoaLine(lines[k], k)))

\* `return soa_count`, or `return 0` from the except clause
ReturnOf(r) == [ret |-> IF r.raised THEN 0 ELSE r.soa_count, list |-> r.list]

\* parse_log_file: the value returned and soa_data_list after the call
ParseLogFileOf(file, list) ==
    IF ~file.exists THEN [ret |-> 0, list |-> list]
    ELSE ReturnOf(ParseLinesFrom(file.lines, 1,
                                 [list |-> list, soa_count |-> 0, raised |-> FALSE]))

\* The lowercase key is looked for first.
LoadTopicListOfLowerFirst(manifest, topics) ==
    IF ~manifest.readable THEN [ret |-> FALSE, topic_list |-> topics]
    ELSE IF DictHas(manifest.data, "topic")
    THEN [ret |-> TRUE, topic_list |-> DictGet(manifest.data, "topic")]
    ELSE IF DictHas(manifest.data, "TOPIC")
    THEN [ret |-> TRUE, topic_list |-> DictGet(manifest.data, "TOPIC")]
    ELSE [ret |-> FALSE, topic_list |-> topics]

\* load_topic_list: the value returned and topic_list after the call; the JSON
\* document of a manifest file is a dict, and open() or json.load() raises for
\* a file that is not readable.
LoadTopicListOf(manifest, topics) ==
    IF ~manifest.readable THEN [ret |-> FALSE, topic_list |-> topics]
    ELSE IF DictHas(manifest.data, "TOPIC")
    THEN [ret |-> TRUE, topic_list |-> DictGet(manifest.data, "TOPIC")]
    ELSE IF DictHas(manifest.data, "topic")
    THEN [ret |-> TRUE, topic_list |-> DictGet(manifest.data, "topic")]
    ELSE [ret |-> FALSE, topic_list |-> topics]

----------------------------------------------------------------------------
\* SOAAnalyzer.process_soa_data

\* The timestamp groups are visited in ascending order of the timestamps.
TimestampOrderSorted(list) ==
    SelectSeq(<<"TS1", "TS2">>, LAMBDA ts : \E i \in 1..Len(list) : list[i].timestamp = ts)

\* The keys of timestamp_groups in insertion order: the timestamps of the
\* samples in the order in which they first occur.
RECURSIVE TimestampOrder(_)
TimestampOrder(list) ==
    IF list = <<>> THEN <<>>
    ELSE LET before == TimestampOrder(SubSeq(list, 1, Len(list) - 1))
             ts == list[Len(list)].timestamp
         IN IF InSeq(before, ts) THEN before ELSE Append(before, ts)

\* [d for d in timestamp_groups[timestamp] if d.data_type == data_type]
GroupData(list, timestamp, data_type) ==
    SelectSeq(list, LAMBDA d : d.timestamp = timestamp /\ d.data_type = data_type)

\* topic_name_to_indices: name -> the 0-based indices at which it is listed
RECURSIVE TopicNameToIndices(_)
TopicNameToIndices(topics) ==
    IF topics = <<>> THEN <<>>
    ELSE LET before == TopicNameToIndices(SubSeq(topics, 1, Len(topics) - 1))
             name == topics[Len(topics)]
         IN DictPut(before, name,
                    (IF DictHas(before, name) THEN DictGet(before, name) ELSE <<>>)
                       \o <<Len(topics) - 1>>)

\* TopicData(topic_name, 0, [], [], [])
NewTopicData(topic_name) ==
    [topic_name |-> topic_name, topic_index |-> 0, send_counts |-> <<>>,
     receive_counts |-> <<>>, drop_counts |-> <<>>]

\* The initialisation loop over topic_name_to_indices.keys()
RECURSIVE InitTopicData(_, _)
InitTopicData(indices, dict) ==
    IF indices = <<>> THEN dict
    ELSE InitTopicData(Tail(indices), DictPut(dict, Head(indices).k, NewTopicData(Head(indices).k)))

SeqMax(s) == CHOOSE m \in {s[i] : i \in 1..Len(s)} : \A i \in 1..Len(s) : s[i] <= m

\* full_counts[base_idx + i] = count for the counts of one sample
Overlay(full, d) ==
    [s \in 1..Len(full) |->
        IF s - 1 >= d.base_index /\ s - 1 < d.base_index + Len(d.counts)
        THEN d.counts[s - d.base_index] ELSE full[s]]

\* The samples are overlaid last to first: the first sample wins on overlap.
RECURSIVE OverlayAllFirstWins(_, _)
OverlayAllFirstWins(full, data) ==
    IF data = <<>> THEN full
    ELSE OverlayAllFirstWins(Overlay(full, data[Len(data)]), SubSeq(data, 1, Len(data) - 1))

RECURSIVE OverlayAll(_, _)
OverlayAll(full, data) ==
    IF data = <<>> THEN full ELSE OverlayAll(Overlay(full, Head(data)), Tail(data))

\* full_counts / full_drop_counts of the samples of one kind of one timestamp
FullCounts(data) ==
    LET max_index == SeqMax([n \in 1..Len(data) |-> data[n].base_index + Len(data[n].counts)])
    IN OverlayAll([s \in 1..max_index |-> 0], data)

\* indices[0], the receive (and drop) slot
ReceiveSlot(indices) == indices[1]
\* The last index listed is the send slot.
SendSlotLast(indices) == indices[Len(indices)]
\* indices[1], the send slot
SendSlot(indices) == indices[2]

\* The dropped series takes a point from every index at which the name is listed.
AddPointsDropEveryIndex(topic_data, indices, timestamp, cnt_data, drop_data) ==
    LET full_counts == IF cnt_data # <<>> THEN FullCounts(cnt_data) ELSE <<>>
        full_drop_counts == IF drop_data # <<>> THEN FullCounts(drop_data) ELSE <<>>
        listed == SelectSeq(indices, LAMBDA i : drop_data # <<>> /\ i < Len(full_drop_counts))
    IN [topic_data EXCEPT
          !.receive_counts =
              IF cnt_data # <<>> /\ Len(indices) > 0 /\ ReceiveSlot(indices) < Len(full_counts)
              THEN Append(@, <<timestamp, full_counts[ReceiveSlot(indices) + 1]>>) ELSE @,
          !.send_counts =
              IF cnt_data # <<>> /\ Len(indices) > 1 /\ SendSlot(indices) < Len(full_counts)
              THEN Append(@, <<timestamp, full_counts[SendSlot(indices) + 1]>>) ELSE @,
          !.drop_counts =
              @ \o [n \in 1..Len(listed) |-> <<timestamp, full_drop_counts[listed[n] + 1]>>]]

\* What one timestamp adds to the TopicData of one name.
AddPoints(topic_data, indices, timestamp, cnt_data, drop_data) ==
    LET full_counts == IF cnt_data # <<>> THEN FullCounts(cnt_data) ELSE <<>>
        full_drop_counts == IF drop_data # <<>> THEN FullCounts(drop_data) ELSE <<>>
    IN [topic_data EXCEPT
          !.receive_counts =
              IF cnt_data # <<>> /\ Len(indices) > 0 /\ ReceiveSlot(indices) < Len(full_counts)
              THEN Append(@, <<timestamp, full_counts[ReceiveSlot(indices) + 1]>>) ELSE @,
          !.send_counts =
              IF cnt_data # <<>> /\ Len(indices) > 1 /\ SendSlot(indices) < Len(full_counts)
              THEN Append(@, <<timestamp, full_counts[SendSlot(indices) + 1]>>) ELSE @,
          !.drop_counts =
              IF drop_data # <<>> /\ Len(indices) > 0
                 /\ ReceiveSlot(indices) < Len(full_drop_counts)
              THEN Append(@, <<timestamp, full_drop_counts[ReceiveSlot(indices) + 1]>>) ELSE @]

\* The loop over timestamp_groups.items() from the k-th timestamp on.
RECURSIVE ProcessGroups(_, _, _, _, _)
ProcessGroups(list, order, k, indices, dict) ==
    IF k > Len(order) THEN dict
    ELSE LET cnt_data == GroupData(list, order[k], "cnt")
             drop_data == GroupData(list, order[k], "drop")
         IN ProcessGroups(list, order, k + 1, indices,
               [i \in 1..Len(dict) |->
                   IF DictHas(indices, dict[i].k)
                   THEN [k |-> dict[i].k,
                         v |-> AddPoints(dict[i].v, DictGet(indices, dict[i].k), order[k],
                                         cnt_data, drop_data)]
                   ELSE dict[i]])

\* The channel map is initialised before the sample list is looked at.
ProcessSoaDataOfInitFirst(topics, list, dict) ==
    IF topics = <<>> THEN [ret |-> FALSE, topic_data_dict |-> dict]
    ELSE IF list = <<>>
    THEN [ret |-> FALSE,
          topic_data_dict |-> InitTopicData(TopicNameToIndices(topics), dict)]
    ELSE LET indices == TopicNameToIndices(topics)
         IN [ret |-> TRUE,
             topic_data_dict |-> ProcessGroups(list, TimestampOrder(list), 1, indices,
                                               InitTopicData(indices, dict))]

\* process_soa_data: the value returned and topic_data_dict after the call
ProcessSoaDataOf(topics, list, dict) ==
    IF topics = <<>> THEN [ret |-> FALSE, topic_data_dict |-> dict]
    ELSE IF list = <<>> THEN [ret |-> FALSE, topic_data_dict |-> dict]
    ELSE LET indices == TopicNameToIndices(topics)
         IN [ret |-> TRUE,
             topic_data_dict |-> ProcessGroups(list, TimestampOrder(list), 1, indices,
                                               InitTopicData(indices, dict))]

\* SOAAnalyzer.generate_topic_charts_data

\* A chart value: a number, or JSON null (None) as the empty value.
Number(count) == <<count>>
Null == <<>>

\* any(count > 0 for _, count in points)
HasData(points) == \E i \in 1..Len(points) : points[i][2] > 0

\* Every point is emitted with its count, zero included.
GapPointsKeepZero(points) ==
    [i \in 1..Len(points) |-> <<points[i][1], Number(points[i][2])>>]

\* [[t, count if count > 0 else None] for t, count in points]
GapPoints(points) ==
    [i \in 1..Len(points) |->
        <<points[i][1], IF points[i][2] > 0 THEN Number(points[i][2]) ELSE Null>>]

\* [[t, count] for t, count in topic_data.drop_counts]
LiteralPoints(points) ==
    [i \in 1..Len(points) |-> <<points[i][1], Number(points[i][2])>>]

SeriesReceived == "received"
SeriesSent == "sent"
SeriesDropped == "dropped"

\* One appended series: its name goes to the legend, its points to the series.
AddSeries(chart, name, data) ==
    [legend |-> Append(chart.legend, name),
     series |-> Append(chart.series, [name |-> name, data |-> data])]

\* The chart of one channel that has data: the received and the sent series
\* are appended if they hold a positive count, the dropped series if it holds
\* any point.
ChartOf(topic_data) ==
    LET empty == [legend |-> <<>>, series |-> <<>>]
        c1 == IF HasData(topic_data.receive_counts)
              THEN AddSeries(empty, SeriesReceived, GapPoints(topic_data.receive_counts))
              ELSE empty
        c2 == IF HasData(topic_data.send_counts)
              THEN AddSeries(c1, SeriesSent, GapPoints(topic_data.send_counts))
              ELSE c1
    IN IF LiteralPoints(topic_data.drop_counts) # <<>>
       THEN AddSeries(c2, SeriesDropped, LiteralPoints(topic_data.drop_counts))
       ELSE c2

\* has_receive_data or has_send_data or has_drop_data
HasAnyData(topic_data) ==
    \/ HasData(topic_data.receive_counts)
    \/ HasData(topic_data.send_counts)
    \/ HasData(topic_data.drop_counts)

\* generate_topic_charts_data: charts_data, name -> chart, in the order of
\* topic_data_dict.
RECURSIVE GenerateTopicChartsDataOf(_)
GenerateTopicChartsDataOf(dict) ==
    IF dict = <<>> THEN <<>>
    ELSE LET before == GenerateTopicChartsDataOf(SubSeq(dict, 1, Len(dict) - 1))
             last == dict[Len(dict)]
         IN IF HasAnyData(last.v) THEN DictPut(before, last.k, ChartOf(last.v)) ELSE before


----------------------------------------------------------------------------
\* Inputs of the SOA model

ManifestABA == <<"A", "B", "A">>
ManifestAABA == <<"A", "A", "B", "A">>
ManifestC == <<"C">>

JsonFile(data) == [readable |-> TRUE, data |-> data]
DocTopic == JsonFile(<<[k |-> "TOPIC", v |-> ManifestABA]>>)
DocLowerTopic == JsonFile(<<[k |-> "topic", v |-> ManifestAABA]>>)
DocBothKeys == JsonFile(<<[k |-> "topic", v |-> ManifestABA], [k |-> "TOPIC", v |-> ManifestC]>>)
DocOtherKey == JsonFile(<<[k |-> "topics", v |-> ManifestC]>>)
DocEmptyList == JsonFile(<<[k |-> "TOPIC", v |-> <<>>]>>)
DocMissing == [readable |-> FALSE, data |-> <<>>]
Docs == {DocTopic, DocLowerTopic, DocBothKeys, DocOtherKey, DocEmptyList, DocMissing}

LogPrefix == <<" ", "B", "Z", "C", "U", " ", "I", " ">>
\* slot 0 = 5, slot 1 = 7, slot 2 = 9 at TS1
LineCnt579 == <<"TS1">> \o LogPrefix \o <<"CNT", "0", ":", "5", ",", "7", ",", "9", "\n">>
\* two slots only at TS2
LineCntShort == <<"TS2">> \o LogPrefix \o <<"CNT", "0", ":", "1", ",", "2", "\n">>
\* slots 1..4 at TS2, with the (ZCAN) prefix
LineCntLong ==
    <<"TS2">> \o LogPrefix \o <<"ZCAN", " ", "CNT", "1", ":", "4", ",", "0", ",", "6", ",", "8", "\n">>
\* drop counts at TS1
LineDrop == <<"TS1">> \o LogPrefix \o <<"DROP", "0", ":", "0", ",", "3", ",", "4", "\n">>
\* an empty item in the value list
LineEmptyItem == <<"TS1">> \o LogPrefix \o <<"CNT", "0", ":", "5", ",", ",", "7", "\n">>
\* no SOA data
LineOther == <<"TS1">> \o LogPrefix \o <<"x", "\n">>

LogFile(lines) == [exists |-> TRUE, lines |-> lines]
FileExample == LogFile(<<LineCnt579>>)
FileShortAndDrop == LogFile(<<LineOther, LineCntShort, LineDrop>>)
FileLong == LogFile(<<LineCntLong>>)
FileEmptyItem == LogFile(<<LineCntShort, LineEmptyItem, LineDrop>>)
FileLongAndDrop == LogFile(<<LineCntLong, LineDrop>>)
FileMissing == [exists |-> FALSE, lines |-> <<>>]
Files == {FileExample, FileShortAndDrop, FileLong, FileEmptyItem, FileLongAndDrop, FileMissing}

\* No further file is parsed once this many samples are accumulated.
MaxSamples == 2

----------------------------------------------------------------------------
\* LogParser.parse_file, ParallelProcessor.process_files_parallel and
\* LogParser.parse_directory
\*
\* A log file is named by its position in log_files and stands for what the
\* file system answers when it is parsed; the fields parse_file extracts from
\* the text are summarised as `parsed`.

FileOk == "ok"                  \* read and parsed
FileUnreadable == "unreadable"  \* exists, but opening or reading it fails
FileAbsent == "missing"       \* gone before os.path.exists
FileVanishes == "vanishes"      \* gone between os.path.exists and os.path.getsize
FileTooLarge == "too_large"     \* larger than cfg.system.max_file_size_mb
FileKinds == {FileOk, FileUnreadable, FileAbsent, FileVanishes, FileTooLarge}

\* ParsedData(file_path=file_path), no field filled in
EmptyParsedData(file_path) == [file_path |-> file_path, parsed |-> FALSE]
\* ParsedData with the fields extracted from the content
FilledParsedData(file_path) == [file_path |-> file_path, parsed |-> TRUE]

\* An entry of a result list: a value, or None as the empty entry.
Value(v) == <<v>>
NoneEntry == <<>>

\* parse_file: whether it raises, the value it returns otherwise, and
\* smart_cache after the call.
ParseFileOf(file_path, kind, cache) ==
    IF kind = FileAbsent
    THEN [raised |-> FALSE, value |-> EmptyParsedData(file_path), cache |-> cache]
    ELSE IF DictHas(cache, file_path)
    THEN [raised |-> FALSE, value |-> DictGet(cache, file_path), cache |-> cache]
    ELSE IF kind = FileVanishes
    THEN [raised |-> TRUE, value |-> EmptyParsedData(file_path), cache |-> cache]
    ELSE IF kind = FileTooLarge
    THEN [raised |-> FALSE, value |-> EmptyParsedData(file_path), cache |-> cache]
    ELSE IF kind = FileUnreadable
    THEN [raised |-> FALSE, value |-> EmptyParsedData(file_path), cache |-> cache]
    ELSE [raised |-> FALSE, value |-> FilledParsedData(file_path),
          cache |-> DictPut(cache, file_path, FilledParsedData(file_path))]

\* The worker that raises leaves no entry.
CollectSkipRaised(results, r) ==
    IF r.raised THEN results ELSE Append(results, Value(r.value))

\* The body of the as_completed loop: the result of the future, None if it
\* raised.
Collect(results, r) ==
    Append(results, IF r.raised THEN NoneEntry ELSE Value(r.value))

\* _process_files_serial from the k-th file on: the fallback of
\* process_files_parallel.
RECURSIVE ProcessFilesSerial(_, _, _, _)
ProcessFilesSerial(files, k, cache, results) ==
    IF k > Len(files) THEN [results |-> results, cache |-> cache]
    ELSE LET r == ParseFileOf(k, files[k], cache)
         IN ProcessFilesSerial(files, k + 1, r.cache, Collect(results, r))

\* [r for r in results if r is not None]
DropNone(results) ==
    LET kept == SelectSeq(results, LAMBDA e : e # NoneEntry)
    IN [i \in 1..Len(kept) |-> kept[i][1]]

\* The serial branch of parse_directory from the k-th file on: an exception of
\* parse_file leaves the loop and the method.
RECURSIVE ParseDirectorySerial(_, _, _, _)
ParseDirectorySerial(files, k, cache, results) ==
    IF k > Len(files) THEN [raised |-> FALSE, results |-> results, cache |-> cache]
    ELSE LET r == ParseFileOf(k, files[k], cache)
         IN IF r.raised THEN [raised |-> TRUE, results |-> <<>>, cache |-> r.cache]
            ELSE ParseDirectorySerial(files, k + 1, r.cache, Append(results, r.value))

\* No directory holds more log files than this.
MaxFiles == 3

\* The directories: every sequence of at most MaxFiles log files.
Directories == UNION {[1..n -> FileKinds] : n \in 0..MaxFiles}

\* smart_cache as earlier parse_file calls of this process may have left it:
\* results of readable files of the directory.
RECURSIVE CacheOf(_, _)
CacheOf(paths, k) ==
    IF k = 0 THEN <<>>
    ELSE IF k \in paths THEN DictPut(CacheOf(paths, k - 1), k, FilledParsedData(k))
    ELSE CacheOf(paths, k - 1)

----------------------------------------------------------------------------
\* State

VARIABLES
    map_content,    \* the lines of the map file the parser was built from
    symbols,        \* MapFileParser.symbols: address -> name
    functions,      \* MapFileParser.functions
    variables,      \* MapFileParser.variables
    lookup_cache,   \* MapFileParser._lookup_cache: address -> name or None
    range_cache,    \* MapFileParser._range_cache: address -> nearest name
    op,             \* the operation that ran last
    address,        \* the argument of the last find_symbol_by_address
    result,         \* the value it returned
    map_parser,     \* TrapAnalyzer.map_parser is not None
    content,        \* the log text given to analyze_trap_logs
    trap_infos,     \* the list analyze_trap_logs returned
    topic_list,     \* SOAAnalyzer.topic_list
    soa_data_list,  \* SOAAnalyzer.soa_data_list
    topic_data_dict,\* SOAAnalyzer.topic_data_dict: name -> TopicData
    soa_op,         \* the SOAAnalyzer method that ran last
    soa_arg,        \* the file it was given (manifest document or log file)
    soa_ret,        \* the value it returned
    max_workers,    \* the number of chunks of the parallel map parse
    chunks_pending, \* the chunks whose future has not been merged yet
    log_files,      \* the log files parse_directory collected
    smart_cache,    \* performance.smart_cache: file path -> ParsedData
    dir_op,         \* where the call of parse_directory stands
    use_parallel,   \* its use_parallel argument
    pending,        \* the files whose future has not completed
    results,        \* the list process_files_parallel collects and returns
    dir_ret,        \* the list parse_directory returned
    workers         \* the lookup each file worker has under way: pc, address, result

symVars == <<map_content, symbols, functions, variables, lookup_cache, range_cache,
             op, address, result>>
trapVars == <<map_parser, content, trap_infos>>

soaVars == <<topic_list, soa_data_list, topic_data_dict, soa_op, soa_arg, soa_ret>>

chunkVars == <<max_workers, chunks_pending>>

dirVars == <<log_files, smart_cache, dir_op, use_parallel, pending, results, dir_ret,
             workers>>

vars == <<symVars, trapVars, soaVars, chunkVars, dirVars>>

\* No directory is being parsed.
NoDirectory ==
    /\ log_files = <<>>
    /\ smart_cache = <<>>
    /\ dir_op = "idle"
    /\ use_parallel = FALSE
    /\ pending = {}
    /\ results = <<>>
    /\ dir_ret = <<>>
    /\ workers = <<>>

\* No parallel map parse is under way.
NoChunks ==
    /\ max_workers = 0
    /\ chunks_pending = {}

\* SOAAnalyzer.__init__
SoaAnalyzerInit ==
    /\ topic_list = <<>>
    /\ soa_data_list = <<>>
    /\ topic_data_dict = <<>>
    /\ soa_op = "init"
    /\ soa_arg = Nil
    /\ soa_ret = Nil

\* MapFileParser.__init__ on a map file of at most 1 MB (the serial parse).
ParserInit(contents) ==
    /\ map_content \in contents
    /\ LET tab == ParseTaskingMap(map_content)
       IN /\ symbols = tab.symbols
          /\ functions = tab.functions
          /\ variables = tab.variables
    /\ lookup_cache = <<>>
    /\ range_cache = <<>>
    /\ op = "init"
    /\ address = Nil
    /\ result = Nil

SymInit ==
    /\ ParserInit(MapContents)
    /\ NoChunks
    /\ NoDirectory
    /\ map_parser = TRUE
    /\ content = <<>>
    /\ trap_infos = <<>>
    /\ SoaAnalyzerInit

\* One call of find_symbol_by_address.
FindSymbol ==
    \E a \in Queries :
        \E r \in {FindSymbolByAddress(symbols, lookup_cache, range_cache, a)} :
           /\ op' = "find"
           /\ address' = a
           /\ result' = r.result
           /\ lookup_cache' = r.lookup_cache
           /\ range_cache' = r.range_cache
           /\ UNCHANGED <<map_content, symbols, functions, variables>>
           /\ UNCHANGED <<trapVars, soaVars, chunkVars, dirVars>>

SymNext == FindSymbol

SymSpec == SymInit /\ [][SymNext]_vars

\* TrapAnalyzer.__init__, with and without a map file, and the log text of the
\* file that is analysed.
TrapInit ==
    /\ map_parser \in BOOLEAN
    /\ ParserInit(IF map_parser THEN TrapMaps ELSE {<<>>})
    /\ NoChunks
    /\ NoDirectory
    /\ content \in Contents
    /\ trap_infos = <<>>
    /\ SoaAnalyzerInit

\* One call of analyze_trap_logs on the log text.
AnalyzeLog ==
    \E r \in {AnalyzeTrapLogs(content, map_parser, symbols, lookup_cache, range_cache)} :
        /\ op' = "analyze"
        /\ trap_infos' = r.trap_infos
        /\ lookup_cache' = r.lookup_cache
        /\ range_cache' = r.range_cache
        /\ UNCHANGED <<map_content, symbols, functions, variables, address, result,
                       map_parser, content>>
        /\ UNCHANGED <<soaVars, chunkVars, dirVars>>

TrapNext == AnalyzeLog

\* TrapAnalyzer.__init__ and a log text with long blocks.
ExtentInit ==
    /\ map_parser \in BOOLEAN
    /\ ParserInit(IF map_parser THEN TrapMaps ELSE {<<>>})
    /\ NoChunks
    /\ NoDirectory
    /\ content \in ExtentContents
    /\ trap_infos = <<>>
    /\ SoaAnalyzerInit

ExtentSpec == ExtentInit /\ [][TrapNext]_vars

\* TrapAnalyzer.__init__ and a log text whose markers may share a line.
LineInit ==
    /\ map_parser \in BOOLEAN
    /\ ParserInit(IF map_parser THEN TrapMaps ELSE {<<>>})
    /\ NoChunks
    /\ NoDirectory
    /\ content \in LineContents
    /\ trap_infos = <<>>
    /\ SoaAnalyzerInit

LineSpec == LineInit /\ [][TrapNext]_vars

TrapSpec == TrapInit /\ [][TrapNext]_vars

\* MapFileParser.__init__ on a map file of more than 1 MB: the maps are empty
\* and one future per chunk is submitted.
MapInit ==
    /\ map_content \in MapContents
    /\ max_workers \in 1..MaxWorkers
    /\ chunks_pending = 1..max_workers
    /\ symbols = <<>>
    /\ functions = <<>>
    /\ variables = <<>>
    /\ lookup_cache = <<>>
    /\ range_cache = <<>>
    /\ op = "parsing"
    /\ address = Nil
    /\ result = Nil
    /\ map_parser = TRUE
    /\ content = <<>>
    /\ trap_infos = <<>>
    /\ SoaAnalyzerInit
    /\ NoDirectory

\* The future of one chunk completes and the as_completed loop merges its maps.
MergeChunk ==
    \E i \in chunks_pending :
        \E tab \in {MergeLocal([symbols |-> symbols, functions |-> functions,
                                variables |-> variables],
                               ParseChunk(Chunk(map_content, max_workers, i)))} :
            /\ symbols' = tab.symbols
            /\ functions' = tab.functions
            /\ variables' = tab.variables
            /\ chunks_pending' = chunks_pending \ {i}
            /\ op' = IF chunks_pending = {i} THEN "parsed" ELSE "parsing"
            /\ UNCHANGED <<map_content, lookup_cache, range_cache, address, result,
                           max_workers>>
            /\ UNCHANGED <<trapVars, soaVars, dirVars>>

MapNext == MergeChunk

MapSpec == MapInit /\ [][MapNext]_vars

\* A LogParser without a map file and a directory of log files; smart_cache
\* holds what earlier calls left in it.
DirInit ==
    /\ log_files \in Directories
    /\ \E paths \in SUBSET {k \in 1..Len(log_files) : log_files[k] = FileOk} :
          smart_cache = CacheOf(paths, Len(log_files))
    /\ dir_op = "idle"
    /\ use_parallel = FALSE
    /\ pending = {}
    /\ results = <<>>
    /\ dir_ret = <<>>
    /\ workers = <<>>
    /\ ParserInit({<<>>})
    /\ NoChunks
    /\ map_parser = FALSE
    /\ content = <<>>
    /\ trap_infos = <<>>
    /\ SoaAnalyzerInit

\* parse_directory is called and finds no log file: it returns [].
ParseDirectoryEmpty ==
    /\ dir_op = "idle"
    /\ log_files = <<>>
    /\ use_parallel' \in BOOLEAN
    /\ dir_op' = "returned"
    /\ dir_ret' = <<>>
    /\ UNCHANGED <<log_files, smart_cache, pending, results, workers>>
    /\ UNCHANGED <<symVars, trapVars, soaVars, chunkVars>>

\* parse_directory(use_parallel=False), or with one log file only: the serial
\* loop, which an exception of parse_file leaves.
ParseDirectorySerially ==
    /\ dir_op = "idle"
    /\ log_files # <<>>
    /\ use_parallel' \in BOOLEAN
    /\ ~(use_parallel' /\ Len(log_files) > 1)
    /\ \E r \in {ParseDirectorySerial(log_files, 1, smart_cache, <<>>)} :
          /\ dir_op' = IF r.raised THEN "raised" ELSE "returned"
          /\ dir_ret' = r.results
          /\ smart_cache' = r.cache
    /\ UNCHANGED <<log_files, pending, results, workers>>
    /\ UNCHANGED <<symVars, trapVars, soaVars, chunkVars>>

\* parse_directory with more than one log file: process_files_parallel submits
\* one future per file.
SubmitFiles ==
    /\ dir_op = "idle"
    /\ Len(log_files) > 1
    /\ use_parallel' = TRUE
    /\ dir_op' = "collecting"
    /\ pending' = 1..Len(log_files)
    /\ results' = <<>>
    /\ UNCHANGED <<log_files, smart_cache, dir_ret, workers>>
    /\ UNCHANGED <<symVars, trapVars, soaVars, chunkVars>>

\* The thread pool fails before a worker ran: process_files_parallel falls
\* back to _process_files_serial and parse_directory drops the None entries.
SubmitFails ==
    /\ dir_op = "idle"
    /\ Len(log_files) > 1
    /\ use_parallel' = TRUE
    /\ \E r \in {ProcessFilesSerial(log_files, 1, smart_cache, <<>>)} :
          /\ results' = r.results
          /\ smart_cache' = r.cache
          /\ dir_ret' = DropNone(r.results)
    /\ dir_op' = "returned"
    /\ UNCHANGED <<log_files, pending, workers>>
    /\ UNCHANGED <<symVars, trapVars, soaVars, chunkVars>>

\* The worker of one file runs parse_file and its future completes; the
\* as_completed loop collects the entry. After the last future
\* process_files_parallel returns and parse_directory drops the None entries.
CompleteFuture ==
    /\ dir_op = "collecting"
    /\ \E k \in pending :
          \E r \in {ParseFileOf(k, log_files[k], smart_cache)} :
             \E collected \in {Collect(results, r)} :
                /\ smart_cache' = r.cache
                /\ results' = collected
                /\ pending' = pending \ {k}
                /\ dir_op' = IF pending = {k} THEN "returned" ELSE "collecting"
                /\ dir_ret' = IF pending = {k} THEN DropNone(collected) ELSE dir_ret
    /\ UNCHANGED <<log_files, use_parallel, workers>>
    /\ UNCHANGED <<symVars, trapVars, soaVars, chunkVars>>

DirNext ==
    \/ ParseDirectoryEmpty
    \/ ParseDirectorySerially
    \/ SubmitFiles
    \/ SubmitFails
    \/ CompleteFuture

DirSpec == DirInit /\ [][DirNext]_vars

\* A LogParser whose TrapAnalyzer is constructed, and the worker threads of
\* parse_directory before any of them looks a symbol up.
RaceInit ==
    /\ ParserInit(TrapMaps)
    /\ NoChunks
    /\ log_files = <<>>
    /\ smart_cache = <<>>
    /\ dir_op = "collecting"
    /\ use_parallel = TRUE
    /\ pending = {}
    /\ results = <<>>
    /\ dir_ret = <<>>
    /\ workers = [w \in 1..NumFileWorkers |-> IdleWorker]
    /\ map_parser = TRUE
    /\ content = <<>>
    /\ trap_infos = <<>>
    /\ SoaAnalyzerInit

RECURSIVE SumCalls(_)
SumCalls(ws) == IF ws = <<>> THEN 0 ELSE Head(ws).calls + SumCalls(Tail(ws))

\* The calls of find_symbol_by_address made so far.
LookupsMade == SumCalls(workers)

\* A worker calls find_symbol_by_address, for the first time or again.
CallFindSymbol ==
    \E w \in DOMAIN workers :
        \E a \in Queries :
            /\ workers[w].pc \in {"idle", "returned"}
            /\ LookupsMade < MaxLookups
            /\ workers' = [workers EXCEPT ![w] = [pc |-> "check_lookup", address |-> a,
                                                  result |-> Nil,
                                                  calls |-> workers[w].calls + 1]]
            /\ UNCHANGED <<log_files, smart_cache, dir_op, use_parallel, pending, results,
                           dir_ret>>
            /\ UNCHANGED <<symVars, trapVars, soaVars, chunkVars>>

\* A worker makes the next dictionary access of its call.
StepFindSymbol ==
    \E w \in DOMAIN workers :
        /\ workers[w].pc \notin {"idle", "returned"}
        /\ \E r \in {FindSymbolStep(workers[w], symbols, lookup_cache, range_cache)} :
              /\ workers' = [workers EXCEPT ![w] = r.worker]
              /\ lookup_cache' = r.lookup_cache
              /\ range_cache' = r.range_cache
        /\ UNCHANGED <<map_content, symbols, functions, variables, op, address, result>>
        /\ UNCHANGED <<log_files, smart_cache, dir_op, use_parallel, pending, results, dir_ret>>
        /\ UNCHANGED <<trapVars, soaVars, chunkVars>>

RaceNext == CallFindSymbol \/ StepFindSymbol

RaceSpec == RaceInit /\ [][RaceNext]_vars

\* A fresh SOAAnalyzer; no map file and no log text.
SoaInit ==
    /\ SoaAnalyzerInit
    /\ ParserInit({<<>>})
    /\ NoChunks
    /\ NoDirectory
    /\ map_parser = FALSE
    /\ content = <<>>
    /\ trap_infos = <<>>

\* One call of load_topic_list.
LoadTopicList ==
    \E doc \in Docs :
        \E r \in {LoadTopicListOf(doc, topic_list)} :
            /\ soa_op' = "load"
            /\ soa_arg' = doc
            /\ soa_ret' = r.ret
            /\ topic_list' = r.topic_list
            /\ UNCHANGED <<soa_data_list, topic_data_dict>>
            /\ UNCHANGED <<symVars, trapVars, chunkVars, dirVars>>

\* One call of parse_log_file.
ParseLogFile ==
    /\ Len(soa_data_list) < MaxSamples
    /\ \E file \in Files :
          \E r \in {ParseLogFileOf(file, soa_data_list)} :
              /\ soa_op' = "parse"
              /\ soa_arg' = file
              /\ soa_ret' = r.ret
              /\ soa_data_list' = r.list
              /\ UNCHANGED <<topic_list, topic_data_dict>>
              /\ UNCHANGED <<symVars, trapVars, chunkVars, dirVars>>

\* One call of process_soa_data.
ProcessSoaData ==
    \E r \in {ProcessSoaDataOf(topic_list, soa_data_list, topic_data_dict)} :
        /\ soa_op' = "process"
        /\ soa_arg' = Nil
        /\ soa_ret' = r.ret
        /\ topic_data_dict' = r.topic_data_dict
        /\ UNCHANGED <<topic_list, soa_data_list>>
        /\ UNCHANGED <<symVars, trapVars, chunkVars, dirVars>>

\* One call of generate_topic_charts_data.
GenerateTopicChartsData ==
    /\ soa_op' = "charts"
    /\ soa_arg' = Nil
    /\ soa_ret' = GenerateTopicChartsDataOf(topic_data_dict)
    /\ UNCHANGED <<topic_list, soa_data_list, topic_data_dict>>
    /\ UNCHANGED <<symVars, trapVars, chunkVars, dirVars>>

SoaNext == LoadTopicList \/ ParseLogFile \/ ProcessSoaData \/ GenerateTopicChartsData

SoaSpec == SoaInit /\ [][SoaNext]_vars

----------------------------------------------------------------------------
\* Claims about the symbol table (checked under SymSpec)

\* The fields of a row, as text between pipes with blanks trimmed.
FieldsOf(line) == Parts(Strip(line))

\* An identifier in the sense of the specification: the identifier pattern,
\* longer than 2 characters, no noise prefix.
IsIdentifierField(f) == MatchIdentFull(f) /\ Len(f) > 2 /\ ~StartsWith(f, NoisePrefix)

\* A field that plays no role: empty, or a noise (mpe:) column.
IsInertField(f) == f = <<>> \/ StartsWith(f, NoisePrefix)

\* Among the fields fs: the address field a and the identifier field n, in
\* either order, and nothing else but inert fields.
FieldsHold(fs, a, n) ==
    \E i, j \in 1..Len(fs) :
        /\ i # j
        /\ fs[i] = a /\ IsAddressField(a)
        /\ fs[j] = n /\ IsIdentifierField(n)
        /\ \A k \in 1..Len(fs) : k \in {i, j} \/ IsInertField(fs[k])

DefinesAddress(line, a) ==
    LET fs == FieldsOf(line)
    IN \E k \in 1..Len(fs) : IsAddressField(fs[k]) /\ Lower(fs[k]) = Lower(a)

OnlyRowDefining(r, a) ==
    \A r2 \in 1..Len(map_content) : r2 = r \/ ~DefinesAddress(map_content[r2], a)

BeginsWithPipe(line) == StartsWith(Strip(line), <<"|">>)

DistanceTo(i) == Distance(HexVal(address), HexVal(symbols[i].k))

\* C2: with no exact entry for the address, the lookup returns the name of a
\* symbol at the least distance when that distance is below 0x1000 (4096) and
\* none otherwise; with one symbol at 0x10000000, 0x10000FFF finds it and
\* 0x10001000 finds nothing.
C2_NearestThreshold ==
    (op = "find" /\ ~DictHas(symbols, Lower(address))) =>
        /\ IF \E i \in 1..Len(symbols) : DistanceTo(i) < 4096
           THEN \E i \in 1..Len(symbols) :
                   /\ result = symbols[i].v
                   /\ DistanceTo(i) < 4096
                   /\ \A k \in 1..Len(symbols) : DistanceTo(i) <= DistanceTo(k)
           ELSE result = Nil
        /\ (DictKeys(symbols) = {Addr10000000} /\ address = Addr10000FFF)
              => result = symbols[1].v
        /\ (DictKeys(symbols) = {Addr10000000} /\ address = Addr10001000)
              => result = Nil

\* One symbol at 0x10000000: 0x10000FFF found it earlier (it is in the nearest
\* cache) and 0x10001000 has just found nothing.
C2_Witness ==
    /\ DictKeys(symbols) = {Addr10000000}
    /\ op = "find" /\ address = Addr10001000 /\ result = Nil
    /\ DictHas(range_cache, Lower(Addr10000FFF))
    /\ DictGet(range_cache, Lower(Addr10000FFF)) = symbols[1].v

\* A lookup that reads no cache: the exact entry, else the first symbol (in
\* table order) among those at the least distance, if below 0x1000, else none.
UncachedLookup(a) ==
    LET key == Lower(IF StartsWith(Lower(a), HexPrefix) THEN a ELSE HexPrefix \o a)
        dist(i) == Distance(HexVal(key), HexVal(symbols[i].k))
        near == {i \in 1..Len(symbols) :
                    dist(i) < 4096 /\ \A k \in 1..Len(symbols) : dist(i) <= dist(k)}
    IN IF \E i \in 1..Len(symbols) : symbols[i].k = key
       THEN symbols[CHOOSE i \in 1..Len(symbols) : symbols[i].k = key].v
       ELSE IF HexValid(key) /\ near # {}
       THEN symbols[CHOOSE i \in near : \A k \in near : i <= k].v
       ELSE Nil

\* C3: every call returns what a lookup without caches returns for the address.
C3_CacheTransparent == op = "find" => result = UncachedLookup(address)

\* A repeated lookup answered from the nearest cache while the exact cache
\* holds a name and a "not found" entry.
C3_Witness ==
    /\ op = "find"
    /\ DictHas(range_cache, Lower(address)) /\ result # Nil
    /\ \E i \in 1..Len(lookup_cache) : lookup_cache[i].v = Nil
    /\ \E i \in 1..Len(lookup_cache) : lookup_cache[i].v # Nil
    /\ Len(lookup_cache) + Len(range_cache) = Cardinality(Queries)

\* C4 as stated: neither cache ever holds more than the configured maximum.
C4_CachesBounded ==
    /\ Len(lookup_cache) <= CacheMaxSize
    /\ Len(range_cache) <= CacheMaxSize

----------------------------------------------------------------------------
\* Claims about the TRAP events (checked under TrapSpec)

NumMarkers == Len(MarkerIndices(content, "RI"))

\* The Func entries in the block of the k-th Reset Info marker, in text order.
EntriesOf(k) == FindAllFunc(TrapBlock(content, k))

\* The block of the k-th marker yields a reset type, a fault address or a Func entry.
Yields(k) ==
    LET b == TrapBlock(content, k)
    IN SearchResetType(b) # Nil \/ SearchDeadd(b) # Nil \/ FindAllFunc(b) # <<>>

\* The place in the returned list of the event of the k-th marker.
EventIndex(k) == Cardinality({j \in 1..k : Yields(j)})

\* C5: in every block with Func entries the selected address is the address of
\* the entry with the numerically largest index N (the last one with that index),
\* whatever the addresses and the order of the entries.
C5_MaxIndexSelected ==
    op = "analyze" =>
        \A k \in 1..NumMarkers :
            \A entries \in {EntriesOf(k)} :
                entries # <<>> =>
                   \A n \in {EventIndex(k)} :
                      /\ n \in 1..Len(trap_infos)
                      /\ \E i \in 1..Len(entries) :
                            /\ trap_infos[n].max_func_address = HexPrefix \o entries[i].addr
                            /\ \A top \in {DecVal(entries[i].num)} :
                                  /\ trap_infos[n].max_func_num = top
                                  /\ \A j \in 1..Len(entries) : DecVal(entries[j].num) <= top
                                  /\ \A j \in (i + 1)..Len(entries) :
                                        DecVal(entries[j].num) # top

\* Func0=0x1000, Func2=0x2000, Func1=0x3000 selects 0x2000.
C5_Witness ==
    /\ op = "analyze"
    /\ content = SegFull
    /\ Len(trap_infos) = 1
    /\ Len(trap_infos[1].func_addresses) = 3
    /\ trap_infos[1].max_func_num = 2
    /\ trap_infos[1].max_func_address = <<"0","x","2","0","0","0">>

\* The name between brackets right after the opening of the diagnosis (the
\* function it names), Nil when there is none.
FunctionSlot(reason) ==
    IF Len(reason) >= 2 /\ reason[1] = "<reason:>" /\ reason[2] = "[["
    THEN SubSeq(reason, 3, (CHOOSE i \in 3..Len(reason) :
                               reason[i] = "]]" /\ \A j \in 3..(i - 1) : reason[j] # "]]") - 1)
    ELSE Nil

\* The name between brackets right after "accesses" (the variable it names).
VariableSlot(reason) ==
    IF \E a \in 1..(Len(reason) - 1) :
          reason[1] = "<reason:>" /\ reason[a] = "<accesses>" /\ reason[a + 1] = "[["
    THEN LET a == CHOOSE a \in 1..(Len(reason) - 1) :
                     reason[a] = "<accesses>" /\ reason[a + 1] = "[["
         IN SubSeq(reason, a + 2, Len(reason) - 2)
    ELSE Nil

\* Which names an event has: "both", "function", "variable" or "neither".
Resolved(e) ==
    IF Truthy(e.function_name) /\ Truthy(e.parameter_name) THEN "both"
    ELSE IF Truthy(e.function_name) THEN "function"
    ELSE IF Truthy(e.parameter_name) THEN "variable"
    ELSE "neither"

\* C6: the diagnosis has one of four pairwise distinct shapes, selected only by
\* which names are resolved: it names the function and the variable, the
\* function only, the variable only, or neither (then it is not a "restart
\* reason" sentence at all).
C6_FourShapes ==
    op = "analyze" =>
        /\ \A n \in 1..Len(trap_infos) :
              LET e == trap_infos[n]
              IN /\ Resolved(e) \in {"both", "function"}
                    <=> FunctionSlot(e.restart_reason) # Nil
                 /\ Resolved(e) \in {"both", "variable"}
                    <=> VariableSlot(e.restart_reason) # Nil
                 /\ Resolved(e) \in {"both", "function"}
                    => FunctionSlot(e.restart_reason) = e.function_name
                 /\ Resolved(e) \in {"both", "variable"}
                    => VariableSlot(e.restart_reason) = e.parameter_name
                 /\ Resolved(e) = "neither" <=> e.restart_reason[1] # "<reason:>"
                 /\ Resolved(e) = "function"
                    => Contains(e.restart_reason, <<"<accesses>", "<memory>">>)
                 /\ Resolved(e) = "variable"
                    => Contains(e.restart_reason, <<"<unknown function>", "<accesses>">>)
        /\ \A n, m \in 1..Len(trap_infos) :
              /\ Resolved(trap_infos[n]) # Resolved(trap_infos[m])
                 => trap_infos[n].restart_reason # trap_infos[m].restart_reason
              /\ (/\ Resolved(trap_infos[n]) = Resolved(trap_infos[m])
                  /\ Resolved(trap_infos[n]) # "neither"
                  /\ trap_infos[n].function_name = trap_infos[m].function_name
                  /\ trap_infos[n].parameter_name = trap_infos[m].parameter_name)
                 => trap_infos[n].restart_reason = trap_infos[m].restart_reason

\* Two events of one analysis with different shapes: both names, then neither.
C6_Witness ==
    /\ op = "analyze"
    /\ Len(trap_infos) = 2
    /\ Resolved(trap_infos[1]) = "both"
    /\ Resolved(trap_infos[2]) = "neither"
    /\ map_parser

\* C7: every event returned has a diagnosis that is neither None nor empty.
C7_DiagnosisNonEmpty ==
    op = "analyze" =>
        \A n \in 1..Len(trap_infos) :
            trap_infos[n].restart_reason # Nil /\ trap_infos[n].restart_reason # <<>>

\* An event with a reset type only, with a map file: no name is resolved.
C7_Witness ==
    /\ op = "analyze"
    /\ map_parser
    /\ \E n \in 1..Len(trap_infos) :
          /\ Truthy(trap_infos[n].rest_type)
          /\ trap_infos[n].deadd_address = Nil
          /\ trap_infos[n].func_addresses = <<>>
          /\ Truthy(trap_infos[n].restart_reason)

\* C8: one event per Reset Info marker whose block yields a reset type, a fault
\* address or a Func entry, in text order, none for the other markers, and
\* never more events than markers.
C8_OneEventPerYieldingMarker ==
    op = "analyze" =>
        \A yielding \in {{k \in 1..NumMarkers : Yields(k)}} :
            /\ Len(trap_infos) = Cardinality(yielding)
            /\ Len(trap_infos) <= NumMarkers
            /\ \A k \in yielding :
                  \A b \in {TrapBlock(content, k)} :
                     \A e \in {trap_infos[Cardinality({j \in yielding : j <= k})]} :
                        /\ e.start_line_number
                              = LineNumberAt(content, MarkerIndices(content, "RI")[k])
                        /\ e.rest_type = SearchResetType(b)
                        /\ (e.deadd_address = Nil) = (SearchDeadd(b) = Nil)
                        /\ \A fs \in {FindAllFunc(b)} :
                              Len(e.func_addresses)
                                 = Cardinality({DecVal(fs[i].num) : i \in 1..Len(fs)})
            /\ \A n \in 1..(Len(trap_infos) - 1) :
                  trap_infos[n].start_line_number < trap_infos[n + 1].start_line_number

\* Two markers, the first without anything (discarded), the second with a
\* fault address only: one event.
C8_Witness ==
    /\ op = "analyze"
    /\ content = SegEmpty \o SegDeadd
    /\ NumMarkers = 2 /\ ~Yields(1) /\ Yields(2)
    /\ Len(trap_infos) = 1
    /\ trap_infos[1].start_line_number = 3

\* The lookup of an address fails: no exact entry and no symbol within range.
LookupFails(a) == UncachedLookup(a) = Nil

\* C9 as stated: with no map file or a failed lookup, the names are
\* param_at_<addr> and func_at_<addr>.
C9_PlaceholdersOnMiss ==
    op = "analyze" =>
        \A n \in 1..Len(trap_infos) :
            LET e == trap_infos[n]
            IN /\ (Truthy(e.deadd_address) /\ (~map_parser \/ LookupFails(e.deadd_address)))
                  => e.parameter_name = LitParamAt \o e.deadd_address
               /\ (Truthy(e.max_func_address) /\ (~map_parser \/ LookupFails(e.max_func_address)))
                  => e.function_name = LitFuncAt \o e.max_func_address

\* The leading hex digit of a 32-bit address (0x + 8 digits), "" for other widths.
TopDigit(a) == IF Len(a) = 10 THEN a[3] ELSE ""

\* C9 amended: with no map file the names are param_at_<addr> and
\* func_at_<addr>; with a map file and a failed lookup they come from the
\* address-range generators: ram_var_ (0xD...), rom_const_ (0x8...) or
\* unknown_var_ for the variable, func_at_ (0x8...), interrupt_handler_ (0x9...)
\* or unknown_func_ for the function.
C9_FallbackNames ==
    op = "analyze" =>
        \A n \in 1..Len(trap_infos) :
            LET e == trap_infos[n]
                d == e.deadd_address
                f == e.max_func_address
            IN /\ (Truthy(d) /\ ~map_parser) => e.parameter_name = LitParamAt \o d
               /\ (Truthy(f) /\ ~map_parser) => e.function_name = LitFuncAt \o f
               /\ (Truthy(d) /\ map_parser /\ LookupFails(d)) =>
                     e.parameter_name =
                        (IF TopDigit(d) \in {"D", "d"} THEN LitRamVar
                         ELSE IF TopDigit(d) = "8" THEN LitRomConst
                         ELSE LitUnknownVar) \o d
               /\ (Truthy(f) /\ map_parser /\ LookupFails(f)) =>
                     e.function_name =
                        (IF TopDigit(f) = "8" THEN LitFuncAt
                         ELSE IF TopDigit(f) = "9" THEN LitInterruptHandler
                         ELSE LitUnknownFunc) \o f

\* With a map file, a fault address in RAM and a Func address in the 0x9 range,
\* neither within reach of a symbol.
C9_Witness ==
    /\ op = "analyze"
    /\ map_parser /\ symbols # <<>>
    /\ content = SegDeadd \o SegFuncTwice
    /\ Len(trap_infos) = 2
    /\ trap_infos[1].parameter_name = LitRamVar \o HexPrefix \o HexD0001234
    /\ trap_infos[2].function_name = LitInterruptHandler \o HexPrefix \o Hex90002000

\* The name a present address is to get on the path with a symbol table: the
\* symbol the lookup finds, or else what the given generator makes of it.
LookupOrGenerated(a, generated) ==
    IF UncachedLookup(a) # Nil THEN UncachedLookup(a) ELSE generated

\* C20: with a symbol table every present address is looked up and gets the
\* symbol found or, on a miss, the name of the variable generator (fault
\* address) or of the function generator (Func address); without a symbol
\* table nothing is looked up and the names are the fallback names. On both
\* paths a name is null exactly when its address is absent.
C20_TwoResolutionPaths ==
    op = "analyze" =>
        /\ \A n \in 1..Len(trap_infos) :
              \A e \in {trap_infos[n]} :
                 /\ (e.parameter_name = Nil) = ~Truthy(e.deadd_address)
                 /\ (e.function_name = Nil) = ~Truthy(e.max_func_address)
                 /\ (map_parser /\ Truthy(e.deadd_address)) =>
                       /\ e.parameter_name =
                             LookupOrGenerated(e.deadd_address,
                                               FindVariableByPattern(e.deadd_address))
                       /\ DictHas(lookup_cache, AddrKey(e.deadd_address))
                 /\ (map_parser /\ Truthy(e.max_func_address)) =>
                       /\ e.function_name =
                             LookupOrGenerated(e.max_func_address,
                                               FindFunctionByPattern(e.max_func_address))
                       /\ DictHas(lookup_cache, AddrKey(e.max_func_address))
                 /\ (~map_parser /\ Truthy(e.deadd_address)) =>
                       e.parameter_name = LitParamAt \o e.deadd_address
                 /\ (~map_parser /\ Truthy(e.max_func_address)) =>
                       e.function_name = LitFuncAt \o e.max_func_address
        /\ ~map_parser => (lookup_cache = <<>> /\ range_cache = <<>>)

\* With a symbol table: the fault address of the first event is found, its
\* Func address is not and is named by the function generator; the second
\* event has a fault address named by the variable generator and no Func
\* address, so no function name.
C20_Witness ==
    /\ op = "analyze"
    /\ map_parser /\ symbols # <<>>
    /\ content = SegFull \o SegDeadd
    /\ Len(trap_infos) = 2
    /\ trap_infos[1].parameter_name = NameFooBar
    /\ trap_infos[1].function_name = LitUnknownFunc \o trap_infos[1].max_func_address
    /\ trap_infos[2].parameter_name = LitRamVar \o HexPrefix \o HexD0001234
    /\ trap_infos[2].max_func_address = Nil
    /\ trap_infos[2].function_name = Nil


----------------------------------------------------------------------------
\* Claims about the SOA analyzer (checked under SoaSpec)

\* The 0-based manifest indices at which a name is listed, ascending.
OccurrencesOf(name) ==
    LET at == {i \in 1..Len(topic_list) : topic_list[i] = name}
    IN [k \in 1..Cardinality(at) |->
           (CHOOSE i \in at : Cardinality({j \in at : j < i}) = k - 1) - 1]

\* The timestamps of the accumulated samples, in order of first occurrence.
SampleTimestamps ==
    LET firsts == {i \in 1..Len(soa_data_list) :
                      \A j \in 1..(i - 1) : soa_data_list[j].timestamp # soa_data_list[i].timestamp}
    IN [k \in 1..Cardinality(firsts) |->
           soa_data_list[CHOOSE i \in firsts : Cardinality({j \in firsts : j < i}) = k - 1].timestamp]

\* The count vector of a timestamp, <<>> when it has no count samples.
CountVector(ts) ==
    LET cnt_data == GroupData(soa_data_list, ts, "cnt")
    IN IF cnt_data = <<>> THEN <<>> ELSE FullCounts(cnt_data)

\* The points (ts, vector[slot]) of the timestamps whose count vector has the slot.
PointsOfSlot(slot) ==
    LET with == SelectSeq(SampleTimestamps, LAMBDA ts : slot < Len(CountVector(ts)))
    IN [k \in 1..Len(with) |-> <<with[k], CountVector(with[k])[slot + 1]>>]

\* C10: after process_soa_data, the received series of every channel of the
\* manifest holds (ts, vector[first occurrence]) for each timestamp with count
\* samples, and its sent series holds (ts, vector[second occurrence]) if the
\* name is listed a second time and is empty otherwise; occurrences after the
\* second are ignored.
C10_FirstReceivesSecondSends ==
    (soa_op = "process" /\ soa_ret = TRUE) =>
        \A i \in 1..Len(topic_list) :
            \A occ \in {OccurrencesOf(topic_list[i])} :
                \A td \in {DictGet(topic_data_dict, topic_list[i])} :
                    /\ td.receive_counts = PointsOfSlot(occ[1])
                    /\ td.send_counts = IF Len(occ) >= 2 THEN PointsOfSlot(occ[2]) ELSE <<>>

\* Manifest [A, B, A] with slots 5, 7, 9 at one timestamp.
C10_Witness ==
    /\ soa_op = "process" /\ soa_ret = TRUE
    /\ topic_list = ManifestABA
    /\ Len(soa_data_list) = 1
    /\ soa_data_list[1].counts = <<5, 7, 9>>
    /\ DictGet(topic_data_dict, "A").receive_counts = <<<<"TS1", 5>>>>
    /\ DictGet(topic_data_dict, "A").send_counts = <<<<"TS1", 9>>>>
    /\ DictGet(topic_data_dict, "B").receive_counts = <<<<"TS1", 7>>>>
    /\ DictGet(topic_data_dict, "B").send_counts = <<>>

\* The samples of a group that cover a 0-based slot.
Covering(data, slot) ==
    {n \in 1..Len(data) :
        data[n].base_index <= slot /\ slot < data[n].base_index + Len(data[n].counts)}

\* The vector the samples of one kind of one timestamp stand for: as long as
\* the farthest sample reaches, 0 where no sample covers the slot, else the
\* value of the last sample that covers it.
ExpectedVector(data) ==
    LET ends == {data[n].base_index + Len(data[n].counts) : n \in 1..Len(data)}
        length == CHOOSE m \in ends : \A e \in ends : e <= m
    IN [s \in 1..length |->
           IF Covering(data, s - 1) = {} THEN 0
           ELSE LET last == CHOOSE n \in Covering(data, s - 1) :
                               \A o \in Covering(data, s - 1) : o <= n
                IN data[last].counts[s - data[last].base_index]]

\* C11: for every timestamp and separately for the count and the drop samples,
\* the reconstructed vector has length max(base_offset + len(values)), holds 0
\* in every slot no sample covers and the value of the last covering sample in
\* every other slot; process_soa_data succeeds whatever the overlap.
C11_VectorReconstruction ==
    (soa_op = "process" /\ topic_list # <<>> /\ soa_data_list # <<>>) =>
        /\ soa_ret = TRUE
        /\ \A n \in 1..Len(soa_data_list) :
              \A kind \in {"cnt", "drop"} :
                 \A data \in {GroupData(soa_data_list, soa_data_list[n].timestamp, kind)} :
                    data # <<>> => FullCounts(data) = ExpectedVector(data)

\* Two count samples of one timestamp overlap in slot 1 (4, then 2): the later
\* value is the one channel A sends.
C11_Witness ==
    /\ soa_op = "process" /\ soa_ret = TRUE
    /\ topic_list = ManifestAABA
    /\ Len(soa_data_list) >= 2
    /\ soa_data_list[1].timestamp = "TS2" /\ soa_data_list[1].base_index = 1
    /\ soa_data_list[1].counts = <<4, 0, 6, 8>>
    /\ soa_data_list[2].timestamp = "TS2" /\ soa_data_list[2].base_index = 0
    /\ soa_data_list[2].counts = <<1, 2>>
    /\ DictGet(topic_data_dict, "A").send_counts = <<<<"TS2", 2>>>>
    /\ DictGet(topic_data_dict, "B").receive_counts = <<<<"TS2", 0>>>>

\* The points of the series of a channel's chart that carry the given name.
EmittedPoints(charts, topic_name, series_name) ==
    IF ~DictHas(charts, topic_name) THEN {}
    ELSE LET series == DictGet(charts, topic_name).series
         IN UNION {{series[s].data[j] : j \in 1..Len(series[s].data)} :
                      s \in {x \in 1..Len(series) : series[x].name = series_name}}

\* C12 as stated: after generate_topic_charts_data every received and every
\* sent point with value 0 is emitted as a null point, every dropped point
\* with value 0 is emitted as a literal 0 point, and every positive value is
\* emitted unchanged, in the three series of the channel's chart.
C12_EveryPointEmitted ==
    soa_op = "charts" =>
        \A i \in 1..Len(topic_data_dict) :
            \A td \in {topic_data_dict[i].v} :
                /\ \A j \in 1..Len(td.receive_counts) :
                      \A p \in {td.receive_counts[j]} :
                         <<p[1], IF p[2] = 0 THEN Null ELSE Number(p[2])>>
                            \in EmittedPoints(soa_ret, td.topic_name, SeriesReceived)
                /\ \A j \in 1..Len(td.send_counts) :
                      \A p \in {td.send_counts[j]} :
                         <<p[1], IF p[2] = 0 THEN Null ELSE Number(p[2])>>
                            \in EmittedPoints(soa_ret, td.topic_name, SeriesSent)
                /\ \A j \in 1..Len(td.drop_counts) :
                      \A p \in {td.drop_counts[j]} :
                         <<p[1], Number(p[2])>>
                            \in EmittedPoints(soa_ret, td.topic_name, SeriesDropped)

\* The series of a chart with the given name.
SeriesNamed(chart, series_name) ==
    SelectSeq(chart.series, LAMBDA s : s.name = series_name)

Positive(points) == {j \in 1..Len(points) : points[j][2] > 0}

\* A series is in the chart exactly when it is due, and then holds one point
\* per point of the channel, in order, with the value the series calls for.
SeriesAsDue(chart, series_name, points, due, null_zero) ==
    \A found \in {SeriesNamed(chart, series_name)} :
        /\ Len(found) = (IF due THEN 1 ELSE 0)
        /\ due =>
              /\ Len(found[1].data) = Len(points)
              /\ \A j \in 1..Len(points) :
                    /\ found[1].data[j][1] = points[j][1]
                    /\ found[1].data[j][2] =
                          IF null_zero /\ points[j][2] = 0 THEN Null ELSE Number(points[j][2])

\* C12 (amended): a channel has a chart exactly when one of its three series
\* holds a positive value; in that chart the received (sent) series is present
\* exactly when it holds a positive value and then emits 0 as null, and the
\* dropped series is present exactly when the channel has a dropped point and
\* emits 0 as a literal 0; positive values are emitted unchanged.
C12_ChartedPointsEmitted ==
    soa_op = "charts" =>
        \A i \in 1..Len(topic_data_dict) :
            \A td \in {topic_data_dict[i].v} :
                /\ DictHas(soa_ret, td.topic_name) <=>
                      (Positive(td.receive_counts) \cup Positive(td.send_counts)
                          \cup Positive(td.drop_counts)) # {}
                /\ DictHas(soa_ret, td.topic_name) =>
                      \A chart \in {DictGet(soa_ret, td.topic_name)} :
                         /\ SeriesAsDue(chart, SeriesReceived, td.receive_counts,
                                        Positive(td.receive_counts) # {}, TRUE)
                         /\ SeriesAsDue(chart, SeriesSent, td.send_counts,
                                        Positive(td.send_counts) # {}, TRUE)
                         /\ SeriesAsDue(chart, SeriesDropped, td.drop_counts,
                                        td.drop_counts # <<>>, FALSE)

\* Channel A received 5 and then 0, sent 9 and then 0, and dropped 0: the
\* chart shows the gaps and the literal 0.
C12_Witness ==
    /\ soa_op = "charts"
    /\ DictHas(topic_data_dict, "A")
    /\ DictGet(topic_data_dict, "A").receive_counts = <<<<"TS1", 5>>, <<"TS2", 0>>>>
    /\ DictGet(topic_data_dict, "A").drop_counts = <<<<"TS1", 0>>>>
    /\ DictHas(soa_ret, "A")
    /\ DictGet(soa_ret, "A").series =
          <<[name |-> SeriesReceived, data |-> <<<<"TS1", Number(5)>>, <<"TS2", Null>>>>],
            [name |-> SeriesSent, data |-> <<<<"TS1", Number(9)>>, <<"TS2", Null>>>>],
            [name |-> SeriesDropped, data |-> <<<<"TS1", Number(0)>>>>]>>

\* Two Python dicts are equal: the same keys with the same values, whatever
\* the order of insertion.
SameDict(d1, d2) ==
    {d1[i] : i \in 1..Len(d1)} = {d2[i] : i \in 1..Len(d2)}

\* C13: when every chunk of the parallel parse is merged, the function, the
\* variable and the symbol map equal those of the serial parse of the same
\* content, for every order in which the chunks completed.
C13_ParallelEqualsSerial ==
    (op = "parsed") =>
        \A serial \in {ParseTaskingMap(map_content)} :
            /\ SameDict(symbols, serial.symbols)
            /\ SameDict(functions, serial.functions)
            /\ SameDict(variables, serial.variables)

\* C14 as stated: when parse_directory has gone through a directory of N log
\* files of which exactly one cannot be read and the others are sound, it has
\* raised no exception and has returned exactly N - 1 results.
C14_UnreadableFileSkipped ==
    (/\ dir_op \in {"returned", "raised"}
     /\ Cardinality({k \in 1..Len(log_files) : log_files[k] = FileUnreadable}) = 1
     /\ \A k \in 1..Len(log_files) : log_files[k] \in {FileOk, FileUnreadable}) =>
        /\ dir_op = "returned"
        /\ Len(dir_ret) = Len(log_files) - 1

\* The files of a parallel call whose worker raises.
RaisingWorkers == {k \in 1..Len(log_files) : log_files[k] = FileVanishes}

\* The entries of the result list that are values for the given file.
EntriesFor(k) ==
    {i \in 1..Len(results) : results[i] # NoneEntry /\ results[i][1].file_path = k}

\* C18: in a parallel call every file whose future completed has exactly one
\* entry in the result list, whatever the order of completion: a None entry
\* if its worker raised, a value otherwise; no future is cancelled, so the
\* list returned holds one entry per input file, and parse_directory returns
\* it without the None entries and raises nothing.
C18_OneEntryPerFile ==
    (use_parallel /\ Len(log_files) > 1 /\ dir_op # "idle") =>
        /\ dir_op \in {"collecting", "returned"}
        /\ Len(results) = Len(log_files) - Cardinality(pending)
        /\ \A k \in 1..Len(log_files) :
              Cardinality(EntriesFor(k)) =
                 IF k \in pending \/ k \in RaisingWorkers THEN 0 ELSE 1
        /\ Cardinality({i \in 1..Len(results) : results[i] = NoneEntry})
              = Cardinality(RaisingWorkers \ pending)
        /\ dir_op = "returned" =>
              /\ pending = {}
              /\ Len(dir_ret) = Len(log_files) - Cardinality(RaisingWorkers)
              /\ \A k \in 1..Len(log_files) \ RaisingWorkers :
                    \E i \in 1..Len(dir_ret) : dir_ret[i].file_path = k

\* Three files; the worker of the second raised and completed first, the
\* workers of its siblings completed after it, last file first.
C18_Witness ==
    /\ dir_op = "returned" /\ use_parallel
    /\ log_files = <<FileOk, FileVanishes, FileUnreadable>>
    /\ results = <<NoneEntry, Value(EmptyParsedData(3)), Value(FilledParsedData(1))>>
    /\ dir_ret = <<EmptyParsedData(3), FilledParsedData(1)>>

\* C15: load_topic_list on a manifest file that is missing returns False, and
\* process_soa_data called with an empty manifest list or an empty sample list
\* returns False and leaves topic_data_dict as it was.
C15_AbsentInputReturnsFalse ==
    [][/\ (soa_op' = "load" /\ soa_arg' = DocMissing) => soa_ret' = FALSE
       /\ (soa_op' = "process" /\ (topic_list' = <<>> \/ soa_data_list' = <<>>)) =>
             (soa_ret' = FALSE /\ topic_data_dict' = topic_data_dict)]_vars

\* The channel map was built, the manifest was then replaced by an empty list,
\* and process_soa_data returned False with the channel map still in place.
C15_Witness ==
    /\ soa_op = "process" /\ soa_ret = FALSE
    /\ topic_list = <<>>
    /\ soa_data_list # <<>>
    /\ DictHas(topic_data_dict, "A")
    /\ DictGet(topic_data_dict, "A").receive_counts # <<>>

RECURSIVE WellFormedSamples(_, _)
WellFormedSamples(lines, k) ==
    IF k > Len(lines) THEN <<>>
    ELSE LET r == ParseSoaLine(lines[k], k)
         IN (IF r.status = "ok" THEN <<r.data>> ELSE <<>>) \o WellFormedSamples(lines, k + 1)

\* C17 as stated: parse_log_file appends one sample for every well-formed dump
\* line of the file, whatever malformed lines the file holds besides: after
\* the call the sample list ends with the samples of all well-formed lines.
C17_MalformedLineSkipped ==
    (soa_op = "parse" /\ soa_arg.exists) =>
        \A expected \in {WellFormedSamples(soa_arg.lines, 1)} :
            /\ Len(soa_data_list) >= Len(expected)
            /\ SubSeq(soa_data_list, Len(soa_data_list) - Len(expected) + 1,
                      Len(soa_data_list)) = expected

\* Where the block of the k-th Reset Info marker is to end: 200 characters
\* after the first DIEAR marker that follows its start; without one, at the
\* start of the next Reset Info marker; without that either, 5000 characters
\* after its start or at the end of the content, whichever comes first.
ExpectedEnd(k) ==
    LET off == Offsets(content)
        start == off[MarkerIndices(content, "RI")[k]]
        diears == {off[i] : i \in {j \in 1..Len(content) : content[j] = "DI"}} \ 0..start
        resets == {off[i] : i \in {j \in 1..Len(content) : content[j] = "RI"}} \ 0..start
    IN IF diears # {} THEN (CHOOSE d \in diears : \A o \in diears : d <= o) + 200
       ELSE IF resets # {} THEN CHOOSE r \in resets : \A o \in resets : r <= o
       ELSE IF start + 5000 <= TextLen(content) THEN start + 5000 ELSE TextLen(content)

\* The text from the k-th marker to where its block is to end.
ExpectedBlock(k) ==
    Slice(content, Offsets(content)[MarkerIndices(content, "RI")[k]], ExpectedEnd(k))

\* C19: the block of every Reset Info marker extends to the first DIEAR marker
\* after its start plus 200 characters, else to the start of the next Reset
\* Info marker, else to min(start + 5000, end of content); the events returned
\* are those of the blocks so cut.
C19_BlockExtent ==
    op = "analyze" =>
        /\ \A k \in 1..NumMarkers :
              /\ BlockEnd(content, k).end_pos = ExpectedEnd(k)
              /\ TrapBlock(content, k) = ExpectedBlock(k)
        /\ \A kept \in {{k \in 1..NumMarkers : ~ParseTrapBlock(ExpectedBlock(k)).none}} :
              /\ Len(trap_infos) = Cardinality(kept)
              /\ \A k \in kept :
                    \A parsed \in {ParseTrapBlock(ExpectedBlock(k))} :
                       \A e \in {trap_infos[Cardinality({j \in kept : j <= k})]} :
                          /\ e.rest_type = parsed.rest_type
                          /\ e.deadd_address = parsed.deadd_address
                          /\ e.func_addresses = parsed.func_addresses

\* The first block is closed by its DIEAR marker and the window leaves its
\* fault address out; the second, without DIEAR, is the last and is cut 5000
\* characters after its marker, before its fault address.
C19_Witness ==
    /\ op = "analyze"
    /\ content = SegWindowOut \o SegLongOut
    /\ ExpectedEnd(1) = Offsets(content)[MarkerIndices(content, "DI")[1]] + 200
    /\ ExpectedEnd(2) = Offsets(content)[MarkerIndices(content, "RI")[2]] + 5000
    /\ ExpectedEnd(2) < TextLen(content)
    /\ Len(trap_infos) = 2
    /\ trap_infos[1].deadd_address = Nil
    /\ trap_infos[2].deadd_address = Nil

----------------------------------------------------------------------------
\* Claims about the dropped series (checked under SoaSpec)

\* The drop vector of a timestamp, <<>> when it has no drop samples.
DropVector(ts) ==
    LET drop_data == GroupData(soa_data_list, ts, "drop")
    IN IF drop_data = <<>> THEN <<>> ELSE FullCounts(drop_data)

\* The points (ts, drop vector[slot]) of the timestamps whose drop vector has the slot.
DropPointsOfSlot(slot) ==
    LET with == SelectSeq(SampleTimestamps, LAMBDA ts : slot < Len(DropVector(ts)))
    IN [k \in 1..Len(with) |-> <<with[k], DropVector(with[k])[slot + 1]>>]

\* C21: after process_soa_data, the dropped series of every channel of the
\* manifest holds exactly one point (ts, drop vector[first occurrence]) for
\* each timestamp whose drop vector reaches the first index of the name, and
\* nothing else: a second listing of the name adds no dropped point.
C21_DropFirstIndexOnly ==
    (soa_op = "process" /\ soa_ret = TRUE) =>
        \A i \in 1..Len(topic_list) :
            \A occ \in {OccurrencesOf(topic_list[i])} :
                \A td \in {DictGet(topic_data_dict, topic_list[i])} :
                    /\ td.drop_counts = DropPointsOfSlot(occ[1])
                    /\ \A ts \in {soa_data_list[n].timestamp : n \in 1..Len(soa_data_list)} :
                          Len(SelectSeq(td.drop_counts, LAMBDA pt : pt[1] = ts)) <= 1

\* Manifest [A, B, A] and the drop vector 0, 3, 4 at TS1: A, listed at 0 and
\* 2, has the one dropped point of slot 0 and none of slot 2.
C21_Witness ==
    /\ soa_op = "process" /\ soa_ret = TRUE
    /\ topic_list = ManifestABA
    /\ \E n \in 1..Len(soa_data_list) :
          /\ soa_data_list[n].data_type = "drop"
          /\ soa_data_list[n].timestamp = "TS1"
          /\ soa_data_list[n].base_index = 0
          /\ soa_data_list[n].counts = <<0, 3, 4>>
    /\ DictGet(topic_data_dict, "A").drop_counts = <<<<"TS1", 0>>>>
    /\ DictGet(topic_data_dict, "B").drop_counts = <<<<"TS1", 3>>>>

----------------------------------------------------------------------------
\* Claims about the function and variable indices (checked under SymSpec)

\* The index the naming heuristic chooses for a name, and the other one.
IndexFor(name) == IF IsFunctionSymbol(name) THEN functions ELSE variables
OtherIndexFor(name) == IF IsFunctionSymbol(name) THEN variables ELSE functions

\* C22: after construction the functions and variables indices partition the
\* symbol table: every address of symbols is in exactly one of the two
\* indices, there under the name it has in symbols, and that index is the one
\* the naming heuristic chooses for the name; the indices hold no other address.
C22_IndicesPartitionSymbols ==
    /\ \A i \in 1..Len(symbols) :
          /\ DictHas(IndexFor(symbols[i].v), symbols[i].k)
          /\ DictGet(IndexFor(symbols[i].v), symbols[i].k) = symbols[i].v
          /\ ~DictHas(OtherIndexFor(symbols[i].v), symbols[i].k)
    /\ \A i \in 1..Len(functions) : DictHas(symbols, functions[i].k)
    /\ \A i \in 1..Len(variables) : DictHas(symbols, variables[i].k)

----------------------------------------------------------------------------
\* Claims about the names stored by map parsing (checked under SymSpec)

\* The name the row should define for the address in column a: the first
\* identifier field before the column, else the first one after it.
ExpectedName(fs, a) ==
    LET jb == FirstIndex(fs, 1, a - 1, IsIdentifierField)
        ja == FirstIndex(fs, a + 1, Len(fs), IsIdentifierField)
    IN IF jb # 0 THEN fs[jb] ELSE IF ja # 0 THEN fs[ja] ELSE Nil

\* C23: every stored name matches the identifier pattern, is longer than 2
\* characters and has no mpe: prefix; the name a table row stores for its
\* address is the first such field before the address, else the first such
\* field after it; a row without an address/identifier pair stores nothing.
C23_StoredNamesAreIdentifiers ==
    /\ \A i \in 1..Len(symbols) : IsIdentifierField(symbols[i].v)
    /\ \A r \in 1..Len(map_content) :
          \A fs \in {FieldsOf(map_content[r])} :
             \A row \in {ParseRow(map_content[r])} :
                IF row.addr # Nil /\ row.name # Nil
                THEN \E a \in 1..Len(fs) :
                        /\ IsAddressField(fs[a]) /\ Lower(fs[a]) = row.addr
                        /\ row.name = ExpectedName(fs, a)
                ELSE \/ ~BeginsWithPipe(map_content[r])
                     \/ \A a \in 1..Len(fs) :
                           IsAddressField(fs[a]) => ExpectedName(fs, a) = Nil

----------------------------------------------------------------------------
\* Claims about the line numbers of the events (checked under LineSpec)

\* C24: for every returned event, start_line is the 1-based line of its Reset
\* Info marker and 1 <= start_line <= end_line <= number of lines of the text,
\* also when two markers share a line and when the block is closed by the next
\* marker.
C24_LineNumbersBoundBlock ==
    op = "analyze" =>
        \A k \in 1..NumMarkers :
            Yields(k) =>
               \A e \in {trap_infos[EventIndex(k)]} :
                  /\ e.start_line_number = LineNumberAt(content, MarkerIndices(content, "RI")[k])
                  /\ 1 <= e.start_line_number
                  /\ e.start_line_number <= e.end_line_number
                  /\ e.end_line_number <= LineCount(content)

----------------------------------------------------------------------------
\* Claims about concurrent lookups (checked under RaceSpec)

\* C25: whatever the interleaving of the workers' calls of
\* find_symbol_by_address on one constructed table, every call that returned
\* has the name a lookup without caches gives for its address, and every
\* entry of the exact and of the nearest-match cache is that name for its key.
C25_ConcurrentLookupsAgree ==
    /\ \A w \in DOMAIN workers :
          workers[w].pc = "returned" => workers[w].result = UncachedLookup(workers[w].address)
    /\ \A i \in 1..Len(lookup_cache) : lookup_cache[i].v = UncachedLookup(lookup_cache[i].k)
    /\ \A i \in 1..Len(range_cache) : range_cache[i].v = UncachedLookup(range_cache[i].k)

\* Two workers looked the same address up at the same time: one has returned
\* and left the entry in the nearest-match cache, the other passed the cache
\* tests before that and is about to insert the entry again.
C25_Witness ==
    /\ symbols # <<>>
    /\ workers[1].pc = "returned" /\ workers[1].address = Addr10000FFF
    /\ workers[1].result = NameOsTask
    /\ workers[2].pc = "store_range" /\ workers[2].address = Addr10000FFF
    /\ DictHas(range_cache, AddrKey(Addr10000FFF))

----------------------------------------------------------------------------
\* Claims about the order of the points (checked under SoaSpec)

\* The place of a timestamp among the timestamps of the accumulated samples,
\* in order of first occurrence (0 when it is not among them).
PlaceOf(ts) ==
    LET at == {k \in 1..Len(SampleTimestamps) : SampleTimestamps[k] = ts}
    IN IF at = {} THEN 0 ELSE CHOOSE k \in at : TRUE

\* The points of a series follow the first occurrences of their timestamps,
\* one point at most for a timestamp.
InFirstOccurrenceOrder(points) ==
    /\ \A n \in 1..Len(points) : PlaceOf(points[n][1]) # 0
    /\ \A n \in 1..(Len(points) - 1) : PlaceOf(points[n][1]) < PlaceOf(points[n + 1][1])

\* C26: after process_soa_data the points of the received, sent and dropped
\* series of every channel are in the order in which their timestamps first
\* occur in the sample list, one point at most for a timestamp, and a series
\* has a point for a timestamp only where the vector of that timestamp reaches
\* the slot of the series (nothing is padded with zeros).
C26_PointsInFirstOccurrenceOrder ==
    (soa_op = "process" /\ soa_ret = TRUE) =>
        \A i \in 1..Len(topic_list) :
            \A occ \in {OccurrencesOf(topic_list[i])} :
                \A td \in {DictGet(topic_data_dict, topic_list[i])} :
                    /\ InFirstOccurrenceOrder(td.receive_counts)
                    /\ InFirstOccurrenceOrder(td.send_counts)
                    /\ InFirstOccurrenceOrder(td.drop_counts)
                    /\ \A n \in 1..Len(td.receive_counts) :
                          occ[1] < Len(CountVector(td.receive_counts[n][1]))
                    /\ \A n \in 1..Len(td.send_counts) :
                          Len(occ) >= 2 /\ occ[2] < Len(CountVector(td.send_counts[n][1]))
                    /\ \A n \in 1..Len(td.drop_counts) :
                          occ[1] < Len(DropVector(td.drop_counts[n][1]))

\* The sample of TS2 was accumulated before the sample of TS1: the received
\* series of B has its TS2 point first. The TS1 vector has three slots only,
\* so a series of slot 3 or 4 would have no TS1 point.
C26_Witness ==
    /\ soa_op = "process" /\ soa_ret = TRUE
    /\ topic_list = ManifestABA
    /\ Len(soa_data_list) = 2
    /\ soa_data_list[1].timestamp = "TS2" /\ soa_data_list[2].timestamp = "TS1"
    /\ soa_data_list[1].data_type = "cnt" /\ soa_data_list[2].data_type = "cnt"
    /\ DictGet(topic_data_dict, "B").receive_counts = <<<<"TS2", 4>>, <<"TS1", 7>>>>
    /\ DictGet(topic_data_dict, "A").send_counts = <<<<"TS2", 0>>, <<"TS1", 9>>>>

----------------------------------------------------------------------------
\* Claims about the fallback diagnosis (checked under TrapSpec)

\* C27: an event returned by analyze_trap_logs has neither name only when its
\* block gave a reset type and neither a fault address nor a Func entry; its
\* diagnosis is then the reset type part alone. So no diagnosis is the
\* unknown-reason text and none holds the entered-TRAP part of the fallback.
C27_NeitherCaseIsTypeOnly ==
    op = "analyze" =>
        \A n \in 1..Len(trap_infos) :
            \A e \in {trap_infos[n]} :
                /\ (~Truthy(e.function_name) /\ ~Truthy(e.parameter_name)) =>
                      /\ Truthy(e.rest_type)
                      /\ ~Truthy(e.deadd_address)
                      /\ e.func_addresses = <<>>
                      /\ e.restart_reason = <<"<reset type: >">> \o e.rest_type
                /\ e.restart_reason # <<"<unknown reason>">>
                /\ ~InSeq(e.restart_reason, "<entered TRAP>")

\* A dump with a reset type only next to a dump with a fault address only.
C27_Witness ==
    /\ op = "analyze"
    /\ content = SegTypeOnly \o SegDeadd
    /\ Len(trap_infos) = 2
    /\ trap_infos[1].restart_reason = <<"<reset type: >", "3">>
    /\ ~Truthy(trap_infos[1].function_name) /\ ~Truthy(trap_infos[1].parameter_name)
    /\ Truthy(trap_infos[2].parameter_name) /\ ~Truthy(trap_infos[2].rest_type)

----------------------------------------------------------------------------
\* Claims about the separation of the blocks (checked under TrapSpec)

\* The offset at which the dump of the k-th Reset Info marker ends: the start
\* of the next marker, the end of the text for the last one.
OwnEnd(k) ==
    LET resets == MarkerIndices(content, "RI")
    IN IF k < Len(resets) THEN Offsets(content)[resets[k + 1]] ELSE TextLen(content)

\* The block of the k-th marker cut off where the next dump begins.
OwnBlock(k) ==
    LET resets == MarkerIndices(content, "RI")
    IN Slice(content, Offsets(content)[resets[k]],
             Min(BlockEnd(content, k).end_pos, OwnEnd(k)))

\* C28: the block of a Reset Info marker ends no later than the next Reset
\* Info marker begins, and the reset type, the fault address and the Func
\* entries of its event are those found before the next marker.
C28_BlocksDoNotOverlap ==
    op = "analyze" =>
        \A k \in 1..NumMarkers :
            /\ BlockEnd(content, k).end_pos <= OwnEnd(k)
            /\ \A own \in {ParseTrapBlock(OwnBlock(k))} :
                  IF own.none THEN ~Yields(k)
                  ELSE /\ Yields(k)
                       /\ \A e \in {trap_infos[EventIndex(k)]} :
                             /\ e.rest_type = own.rest_type
                             /\ e.deadd_address = own.deadd_address
                             /\ e.func_addresses = own.func_addresses

----------------------------------------------------------------------------
\* Claims about a reused analyzer (checked under SoaSpec)

\* The channel map a fresh SOAAnalyzer computes from a manifest and samples.
FreshTopicData(topics, list) == ProcessSoaDataOf(topics, list, <<>>).topic_data_dict

\* C29: whatever was loaded, parsed and processed before, a successful
\* process_soa_data leaves the channel map a fresh analyzer computes from the
\* current manifest and the accumulated samples: the keys are the names of
\* the current manifest and no series holds a point twice.
C29_ProcessEqualsFreshAnalyzer ==
    (soa_op = "process" /\ soa_ret = TRUE) =>
        /\ SameDict(topic_data_dict, FreshTopicData(topic_list, soa_data_list))
        /\ DictKeys(topic_data_dict) = {topic_list[i] : i \in 1..Len(topic_list)}

----------------------------------------------------------------------------
\* Claims about the value parse_log_file returns (checked under SoaSpec)

\* C30: every call of parse_log_file returns the number of samples it
\* appended to the sample list, and the samples that were there stay in front;
\* so a call that returns 0 (missing file, or an exception on the way) leaves
\* the list as it was.
C30_ReturnCountsAppended ==
    [][soa_op' = "parse" =>
          /\ soa_ret' = Len(soa_data_list') - Len(soa_data_list)
          /\ SubSeq(soa_data_list', 1, Len(soa_data_list)) = soa_data_list]_vars

====
